---- MODULE Spec2Model ----
(***************************************************************************)
(* Model of the answer pipeline of the Hidayah Quran assistant:            *)
(*   - the citation parser/validator        (src/src/lib/streaming.ts,     *)
(*                                            the citations module part)   *)
(*   - the streaming adapter                 (src/src/lib/streaming.ts)    *)
(*   - the answer generator                  (src/src/lib/generation.ts)   *)
(*   - the chat route's dispatch             (src/src/app/api/chat/route.ts)*)
(*   - the rate limiter and request validation of the chat route           *)
(*   - the query rewrite and the retrieval   (src/src/lib/retrieval.ts)    *)
(*                                                                         *)
(* A text is a sequence of characters, each character a one-character      *)
(* string.  Three lexemes that TLA+ strings cannot spell, or that are      *)
(* long and inert for every regular expression of the code, are written    *)
(* as one element: "FENCE" (the three backticks of a Markdown fence),      *)
(* "json" (the word after an opening fence), "EN" (the en dash), and the   *)
(* fixed messages and JSON punctuation (no digit, colon directly after a   *)
(* digit, bracket or dash occurs in them at a place a pattern could use).  *)
(***************************************************************************)
EXTENDS Integers, Sequences, FiniteSets, TLC

VARIABLES
    \* ---- streaming adapter (createStreamingResponse / streamChatResponse)
    context,       \* the PairedVerse[] handed to the adapter or generator
    spc,           \* position of the start() callback
    events,        \* events successfully enqueued on the response channel
    fullContent,   \* the closure variable fullContent
    channel,       \* state of the ReadableStream: readable / closed / cancelled
    upstream,      \* state of the completion call made by streamChatResponse
    pulled,        \* chunks pulled from the upstream completion stream
    \* ---- answer generator and route dispatch
    gpc,           \* position of POST / generateVerifiedAnswer
    entry,         \* "direct" (generateVerifiedAnswer called) or "post"
    acceptsStream, \* route: the accept header asks for text/event-stream
    draftAnswer,   \* result of generateAnswer
    verifiedAnswer,\* result of verifyAnswer (as parsed, before step 4)
    response,      \* the ChatResponse returned
    genCalls,      \* completion calls issued by generateAnswer
    verifyCalls,   \* completion calls issued by verifyAnswer
    streamOpened,  \* route: createStreamingResponse was called
    \* ---- parseJsonResponse on its own
    ppc,           \* "input" before the call, "returned" after it
    content,       \* completion text given to parseJsonResponse
    parsed,        \* its result
    \* ---- the citation functions on their own
    citeText,      \* the text given to the functions that take a text
    citeRefs,      \* the VerseRef[] given to dedupeRefs and as contextRefs
    called,        \* the functions that have been called and have returned
    parsedCitations,  \* result of parseCitations(citeText)
    hasCitation,      \* result of paragraphHasCitation(citeText)
    validationResult, \* result of validateCitationsAgainstContext(citeText, citeRefs)
    dedupedRefs,      \* result of dedupeRefs(citeRefs)
    \* ---- the query preprocessor on its own
    qpc,           \* "input" before expandShortQuery is called, "returned" after
    query,         \* the query given to expandShortQuery
    expanded,      \* its result
    \* ---- the chat route up to the retrieval call
    now,           \* Date.now()
    ticks,         \* steps the clock has made
    requestCounts, \* the module-level Map of checkRateLimit
    rpc,           \* position of POST for the request at hand
    reqIp,         \* the ip POST derived from the headers
    limited,       \* checkRateLimit returned false for the request
    bodyRead,      \* request.json() was called
    reqBody,       \* the value request.json() resolved with
    status,        \* HTTP status of the response, 0 while there is none
    validated,     \* validation.data: what POST hands to the pipeline
    rwQuery,       \* rewriteQueryWithContext: its query argument
    rwHistory,     \* rewriteQueryWithContext: its history argument
    rwOutput,      \* rewriteQueryWithContext: what the LLM call gave
    rwResult,      \* rewriteQueryWithContext: the value it returned
    rwCaller,      \* who called rewriteQueryWithContext: "route" or "direct"
    rewriteCalls,  \* LLM calls issued by rewriteQueryWithContext
    retrievalCalls,\* calls of retrievePairedContext
    retrievalQuery,\* the query given to retrievePairedContext
    \* ---- retrievePairedContext and its collaborators
    tpc,           \* position of retrievePairedContext and of its caller
    englishResults,\* what searchSimilarVerses returned
    anchors,       \* the anchor rows built from the search results
    uniqueRefs,    \* the references expandPassages asks the row store for
    enData,        \* data of the English lookup of expandPassages
    retrieved,     \* the list retrievePairedContext returned
    thrown,        \* message of the Error that left retrievePairedContext
    failedCalls,   \* collaborator calls of this request that failed
    reply          \* what POST answers once the retrieval has ended

vars == <<context, spc, events, fullContent, channel, upstream, pulled,
          gpc, entry, acceptsStream, draftAnswer, verifiedAnswer, response,
          genCalls, verifyCalls, streamOpened, ppc, content, parsed,
          citeText, citeRefs, called, parsedCitations, hasCitation,
          validationResult, dedupedRefs, qpc, query, expanded,
          now, ticks, requestCounts, rpc, reqIp, limited, bodyRead, reqBody,
          status,
          validated, rwQuery, rwHistory, rwOutput, rwResult, rwCaller,
          rewriteCalls,
          retrievalCalls, retrievalQuery,
          tpc, englishResults, anchors, uniqueRefs, enData, retrieved, thrown,
          failedCalls, reply>>

streamVars == <<spc, events, fullContent, channel, upstream, pulled>>
genVars == <<gpc, entry, acceptsStream, draftAnswer, verifiedAnswer, response,
             genCalls, verifyCalls, streamOpened>>
parseVars == <<ppc, content, parsed>>
citeVars == <<citeText, citeRefs, called, parsedCitations, hasCitation,
              validationResult, dedupedRefs>>
queryVars == <<qpc, query, expanded>>
limiterVars == <<now, ticks, requestCounts>>
requestData == <<reqIp, limited, bodyRead, reqBody, status, validated>>
requestVars == <<rpc, requestData>>
rewriteVars == <<rwQuery, rwHistory, rwOutput, rwResult, rwCaller, rewriteCalls>>
retrievalVars == <<retrievalCalls, retrievalQuery>>
routeVars == <<limiterVars, requestVars, rewriteVars, retrievalVars>>
retrieveVars == <<tpc, englishResults, anchors, uniqueRefs, enData, retrieved,
                  thrown, failedCalls, reply>>

(***************************************************************************)
(* Bounds of the model.                                                    *)
(***************************************************************************)
MaxChunks == 3     \* chunks one upstream completion stream delivers at most

(***************************************************************************)
(* Program constants.                                                      *)
(***************************************************************************)
MaxSurah == 114
MaxAyah == 286
MaxDigits == 3

(***************************************************************************)
(* Characters and numbers.                                                 *)
(***************************************************************************)
Digits == {"0", "1", "2", "3", "4", "5", "6", "7", "8", "9"}

DigitVal(c) ==
    CASE c = "0" -> 0 [] c = "1" -> 1 [] c = "2" -> 2 [] c = "3" -> 3
      [] c = "4" -> 4 [] c = "5" -> 5 [] c = "6" -> 6 [] c = "7" -> 7
      [] c = "8" -> 8 [] c = "9" -> 9

DigitChar(d) ==
    CASE d = 0 -> "0" [] d = 1 -> "1" [] d = 2 -> "2" [] d = 3 -> "3"
      [] d = 4 -> "4" [] d = 5 -> "5" [] d = 6 -> "6" [] d = 7 -> "7"
      [] d = 8 -> "8" [] d = 9 -> "9"

IsDigit(t, i) == i >= 1 /\ i <= Len(t) /\ t[i] \in Digits

\* parseInt(s, 10) of the digits t[i .. i+k-1]
RECURSIVE parseInt(_, _, _)
parseInt(t, i, k) ==
    IF k = 0 THEN 0
    ELSE parseInt(t, i, k - 1) * 10 + DigitVal(t[i + k - 1])

\* String(n) of a non-negative integer
RECURSIVE NumberToString(_)
NumberToString(n) ==
    IF n < 10 THEN <<DigitChar(n)>>
    ELSE NumberToString(n \div 10) \o <<DigitChar(n % 10)>>

\* number of digits at t[i], t[i+1], ... counted up to cap
RECURSIVE DigitRun(_, _, _)
DigitRun(t, i, cap) ==
    IF cap = 0 \/ ~IsDigit(t, i) THEN 0
    ELSE 1 + DigitRun(t, i + 1, cap - 1)

Min(a, b) == IF a <= b THEN a ELSE b

\* the elements of a sequence, and the first index of one of them
SeqSet(q) == {q[j] : j \in 1 .. Len(q)}
FirstIndex(q, x) == CHOOSE j \in 1 .. Len(q) : q[j] = x /\ \A k \in 1 .. (j - 1) : q[k] # x

Opening == {"[", "("}
Closing == {"]", ")"}
Dashes == {"-", "EN"}
Whitespace == {" ", "\n"}

At(t, i, S) == i >= 1 /\ i <= Len(t) /\ t[i] \in S

(***************************************************************************)
(* parseCitations: the global pattern                                      *)
(*   /[\[\(]?(\d{1,3}):(\d{1,3})(?:[-EN](\d{1,3}))?[\]\)]?/g               *)
(* matchAt gives the match of the pattern that starts at position i: the   *)
(* quantifiers are greedy and everything after the second number is        *)
(* optional, so the only backtracking that can succeed is none.            *)
(***************************************************************************)
matchAt(t, i) ==
    LET p  == IF At(t, i, Opening) THEN i + 1 ELSE i
        k1 == DigitRun(t, p, MaxDigits + 1)
        q  == p + k1 + 1
        k2 == DigitRun(t, q, MaxDigits)
        e  == q + k2
        k3 == IF At(t, e, Dashes) THEN DigitRun(t, e + 1, MaxDigits) ELSE 0
        e2 == IF k3 > 0 THEN e + 1 + k3 ELSE e
        e3 == IF At(t, e2, Closing) THEN e2 + 1 ELSE e2
    IN  IF k1 >= 1 /\ k1 <= MaxDigits /\ At(t, p + k1, {":"}) /\ k2 >= 1
        THEN [ok |-> TRUE, surah |-> parseInt(t, p, k1),
              startAyah |-> parseInt(t, q, k2),
              endAyah |-> IF k3 > 0 THEN parseInt(t, e + 1, k3)
                          ELSE parseInt(t, q, k2),
              end |-> e3]
        ELSE [ok |-> FALSE, surah |-> 0, startAyah |-> 0, endAyah |-> 0,
              end |-> i + 1]

\* for (ayah = startAyah; ayah <= Math.min(endAyah, 286); ayah++) push
\* (the j-th pass of the loop pushes the ayah startAyah + j - 1)
expandRange(surah, startAyah, last) ==
    [j \in 1 .. (IF last >= startAyah THEN last - startAyah + 1 ELSE 0) |->
        [surah |-> surah, ayah |-> startAyah + j - 1]]

matchCitations(m) ==
    IF m.surah >= 1 /\ m.surah <= MaxSurah /\ m.startAyah >= 1
       /\ m.startAyah <= MaxAyah
    THEN expandRange(m.surah, m.startAyah, Min(m.endAyah, MaxAyah))
    ELSE <<>>

\* the while ((match = pattern.exec(text)) !== null) loop from lastIndex i
RECURSIVE parseFrom(_, _)
parseFrom(t, i) ==
    IF i > Len(t) THEN <<>>
    ELSE LET m == matchAt(t, i)
         IN  IF m.ok THEN matchCitations(m) \o parseFrom(t, m.end)
             ELSE parseFrom(t, i + 1)

parseCitations(text) == parseFrom(text, 1)

(***************************************************************************)
(* paragraphHasCitation: pattern.test with                                 *)
(*   /[\[\(](\d{1,3}):(\d{1,3})(?:[-EN](\d{1,3}))?[\]\)]/                  *)
(***************************************************************************)
AllDigits(t, i, k) == \A j \in i .. (i + k - 1) : IsDigit(t, j)

paragraphHasCitation(paragraph) ==
    \E i \in 1 .. Len(paragraph), k1 \in 1 .. MaxDigits, k2 \in 1 .. MaxDigits :
        /\ At(paragraph, i, Opening)
        /\ AllDigits(paragraph, i + 1, k1)
        /\ At(paragraph, i + 1 + k1, {":"})
        /\ AllDigits(paragraph, i + 2 + k1, k2)
        /\ \/ At(paragraph, i + 2 + k1 + k2, Closing)
           \/ \E k3 \in 1 .. MaxDigits :
                /\ At(paragraph, i + 2 + k1 + k2, Dashes)
                /\ AllDigits(paragraph, i + 3 + k1 + k2, k3)
                /\ At(paragraph, i + 3 + k1 + k2 + k3, Closing)

(***************************************************************************)
(* String helpers of the platform: trim, trimEnd, split(/\n\n+/).          *)
(***************************************************************************)
RECURSIVE trimStart(_)
trimStart(t) ==
    IF t # <<>> /\ Head(t) \in Whitespace THEN trimStart(Tail(t)) ELSE t

RECURSIVE trimEnd(_)
trimEnd(t) ==
    IF t # <<>> /\ t[Len(t)] \in Whitespace
    THEN trimEnd(SubSeq(t, 1, Len(t) - 1)) ELSE t

trim(t) == trimEnd(trimStart(t))

\* length of the run of "\n" that starts at t[i]
RECURSIVE NewlineRun(_, _)
NewlineRun(t, i) ==
    IF At(t, i, {"\n"}) THEN 1 + NewlineRun(t, i + 1) ELSE 0

\* text.split(/\n\n+/): cur is the piece being collected
RECURSIVE splitBlank(_, _, _)
splitBlank(t, i, cur) ==
    IF i > Len(t) THEN <<cur>>
    ELSE IF NewlineRun(t, i) >= 2
         THEN <<cur>> \o splitBlank(t, i + NewlineRun(t, i), <<>>)
         ELSE splitBlank(t, i + 1, Append(cur, t[i]))

splitIntoParagraphs(text) ==
    LET pieces  == splitBlank(text, 1, <<>>)
        trimmed == [j \in 1 .. Len(pieces) |-> trim(pieces[j])]
    IN  SelectSeq(trimmed, LAMBDA p : Len(p) > 0)

(***************************************************************************)
(* validateCitationsAgainstContext                                         *)
(***************************************************************************)
RefKey(r) == <<r.surah, r.ayah>>

validateCitationsAgainstContext_SurahKey(answer, contextRefs) ==
    LET citations  == parseCitations(answer)
        contextSet == {contextRefs[j].surah : j \in 1 .. Len(contextRefs)}
        invalid    == SelectSeq(citations, LAMBDA c : c.surah \notin contextSet)
    IN  [valid |-> Len(invalid) = 0, invalidCitations |-> invalid]
validateCitationsAgainstContext(answer, contextRefs) ==
    LET citations  == parseCitations(answer)
        contextSet == {RefKey(contextRefs[j]) : j \in 1 .. Len(contextRefs)}
        invalid    == SelectSeq(citations, LAMBDA c : RefKey(c) \notin contextSet)
    IN  [valid |-> Len(invalid) = 0, invalidCitations |-> invalid]

Ref(s, a) == [surah |-> s, ayah |-> a]

(***************************************************************************)
(* dedupeRefs: refs.filter with the Set seen of the keys met so far.       *)
(***************************************************************************)
RECURSIVE dedupeFrom(_, _)
dedupeFrom_NoAdd(refs, seen) == refs
dedupeFrom(refs, seen) ==
    IF refs = <<>> THEN <<>>
    ELSE LET key == RefKey(Head(refs))
         IN  IF key \in seen THEN dedupeFrom(Tail(refs), seen)
             ELSE <<Head(refs)>> \o dedupeFrom(Tail(refs), seen \cup {key})

dedupeRefs(refs) == dedupeFrom(refs, {})

(***************************************************************************)
(* JSON values of a completion.  A value is a record tagged by t; a field  *)
(* of an object that the completion leaves out is Absent.                  *)
(***************************************************************************)
Null == [t |-> "null"]
Absent == [t |-> "absent"]
Str(s) == [t |-> "str", s |-> s]
Num(n) == [t |-> "num", n |-> n]
Arr(a) == [t |-> "arr", a |-> a]
Obj(am, cit, unc) == [t |-> "obj", am |-> am, cit |-> cit, unc |-> unc]
\* an entry {"surah": s, "ayah": a} of a citations array
Cit(s, a) == [t |-> "cit", surah |-> s, ayah |-> a]

\* JSON.stringify, compact.  A key with its quotes and colon is one element.
RECURSIVE escapeString(_)
escapeString(s) ==
    IF s = <<>> THEN <<>>
    ELSE (IF Head(s) = "\n" THEN <<"\\", "n">> ELSE <<Head(s)>>)
         \o escapeString(Tail(s))

RECURSIVE renderEntries(_)
RECURSIVE renderJson(_)
renderEntries(a) ==
    IF a = <<>> THEN <<>>
    ELSE renderJson(Head(a))
         \o (IF Len(a) > 1 THEN <<",">> ELSE <<>>)
         \o renderEntries(Tail(a))
renderJson(v) ==
    CASE v.t = "null" -> <<"null">>
      [] v.t = "num" -> NumberToString(v.n)
      [] v.t = "str" -> <<"\"">> \o escapeString(v.s) \o <<"\"">>
      [] v.t = "arr" -> <<"[">> \o renderEntries(v.a) \o <<"]">>
      [] v.t = "cit" -> <<"{", "\"surah\":">> \o NumberToString(v.surah)
                        \o <<",", "\"ayah\":">> \o NumberToString(v.ayah) \o <<"}">>
      [] v.t = "obj" ->
           LET fields == SelectSeq(
                   <<<<"\"answer_markdown\":", v.am>>, <<"\"citations\":", v.cit>>,
                     <<"\"uncertainty\":", v.unc>>>>,
                   LAMBDA f : f[2].t # "absent")
               \* key, value and a comma between two fields
               field(j) == <<fields[j][1]>> \o renderJson(fields[j][2])
                           \o (IF j < Len(fields) THEN <<",">> ELSE <<>>)
           IN  <<"{">>
               \o (IF Len(fields) >= 1 THEN field(1) ELSE <<>>)
               \o (IF Len(fields) >= 2 THEN field(2) ELSE <<>>)
               \o (IF Len(fields) >= 3 THEN field(3) ELSE <<>>)
               \o <<"}">>

(***************************************************************************)
(* Texts of the model.                                                     *)
(***************************************************************************)
\* answers: "a (2:5)", "a (2:5)\n\nb", "a", "a 3:1", "(2:5)\n\n[2:5-6]", ""
Answers ==
    {<<"a", " ", "(", "2", ":", "5", ")">>,
     <<"a", " ", "(", "2", ":", "5", ")", "\n", "\n", "b">>,
     <<"a">>,
     <<"a", " ", "3", ":", "1">>,
     <<"(", "2", ":", "5", ")", "\n", "\n", "[", "2", ":", "5", "-", "6", "]">>,
     <<>>}

CitationLists ==
    {Arr(<<>>), Arr(<<Cit(2, 5)>>), Arr(<<Cit(3, 1), Cit(2, 5)>>),
     Arr(<<Cit(200, 1)>>), Arr(<<Null>>), Str(<<"a">>), Absent}

Uncertainties == {Null, Str(<<"u">>), Str(<<>>), Absent}

JsonValues ==
    {Obj(Str(am), cit, unc) : am \in Answers, cit \in CitationLists, unc \in Uncertainties}
    \cup {Obj(Absent, cit, Null) : cit \in CitationLists}
    \cup {Obj(Num(7), Arr(<<>>), Null), Obj(Null, Arr(<<Cit(2, 5)>>), Null)}
    \cup {Null, Num(5), Str(<<"a", " ", "(", "2", ":", "5", ")">>), Arr(<<>>)}

\* what JSON.parse accepts, and the value it returns for it
JsonTable == {<<renderJson(v), v>> : v \in JsonValues}

isJson(text) == \E e \in JsonTable : e[1] = text
JsonParse(text) == (CHOOSE e \in JsonTable : e[1] = text)[2]

\* a completion as the model returns it: bare, or in a Markdown code fence
Fences == {"none", "json", "plain"}
fenced(f, text) ==
    CASE f = "none" -> text
      [] f = "json" -> <<"FENCE", "json", "\n">> \o text \o <<"\n", "FENCE">>
      [] f = "plain" -> <<"FENCE", "\n">> \o text \o <<"\n", "FENCE", "\n">>

\* completions that are no JSON: "a 3:1", "(2:5)", "a\n\n(2:9)", "" and an
\* unterminated object
Prose ==
    {<<"a", " ", "3", ":", "1">>,
     <<"(", "2", ":", "5", ")">>,
     <<"a", "\n", "\n", "(", "2", ":", "9", ")">>,
     <<>>,
     <<"{", "\"answer_markdown\":", "\"", "(", "3", ":", "1", ")">>}

Completions ==
    {fenced(f, renderJson(v)) : f \in Fences, v \in JsonValues} \cup Prose

(***************************************************************************)
(* parseJsonResponse                                                       *)
(***************************************************************************)
startsWith(t, prefix) ==
    Len(t) >= Len(prefix) /\ SubSeq(t, 1, Len(prefix)) = prefix
endsWith(t, suffix) ==
    Len(t) >= Len(suffix) /\ SubSeq(t, Len(t) - Len(suffix) + 1, Len(t)) = suffix

\* lines 406-417: trim, cut the opening and the closing fence, trim
stripFence(text) ==
    LET t0 == trim(text)
        a  == IF startsWith(t0, <<"FENCE", "json">>) THEN SubSeq(t0, 3, Len(t0))
              ELSE IF startsWith(t0, <<"FENCE">>) THEN SubSeq(t0, 2, Len(t0))
              ELSE t0
        b  == IF endsWith(a, <<"FENCE">>) THEN SubSeq(a, 1, Len(a) - 1) ELSE a
    IN  trim(b)

\* the try block throws: JSON.parse throws a SyntaxError, parsed is null
\* (parsed.answer_markdown is a TypeError), or an entry of parsed.citations
\* is null (c.surah is a TypeError)
tryThrows(jsonStr) ==
    \/ ~isJson(jsonStr)
    \/ LET v == JsonParse(jsonStr)
       IN  \/ v.t = "null"
           \/ /\ v.t = "obj"
              /\ v.cit.t = "arr"
              /\ \E j \in 1 .. Len(v.cit.a) : v.cit.a[j].t = "null"

\* parsed.<field> of a parsed value: undefined unless parsed is an object
fieldOf(v, name) ==
    IF v.t # "obj" THEN Absent
    ELSE CASE name = "answer_markdown" -> v.am
           [] name = "citations" -> v.cit
           [] name = "uncertainty" -> v.unc

\* String(parsed.answer_markdown || "")
coerceAnswer(f) ==
    CASE f.t = "str" -> f.s
      [] f.t = "num" -> IF f.n = 0 THEN <<>> ELSE NumberToString(f.n)
      [] OTHER -> <<>>

\* Array.isArray(parsed.citations) ? parsed.citations.map(...) : []
coerceCitations(f) ==
    IF f.t = "arr"
    THEN [j \in 1 .. Len(f.a) |-> Ref(f.a[j].surah, f.a[j].ayah)]
    ELSE <<>>

\* parsed.uncertainty || null
coerceUncertainty(f) ==
    IF f.t = "str" /\ f.s # <<>> THEN f
    ELSE IF f.t = "num" /\ f.n # 0 THEN f
    ELSE Null

\* lines 436-446: the text citations not yet in the list are appended
RECURSIVE unionCitations(_, _)
unionCitations_NoExistsCheck(allCitations, textCitations) ==
    allCitations \o textCitations
unionCitations(allCitations, textCitations) ==
    IF textCitations = <<>> THEN allCitations
    ELSE LET tc == Head(textCitations)
             exists == \E j \in 1 .. Len(allCitations) : allCitations[j] = tc
         IN  unionCitations(IF exists THEN allCitations ELSE Append(allCitations, tc),
                            Tail(textCitations))

ContextAdvisory == Str(<<"Some citations may reference verses not in the current context.">>)
ParsingAdvisory == Str(<<"Response parsing issue - please verify the citations manually.">>)

contextRefsOf(ctx) == [j \in 1 .. Len(ctx) |-> Ref(ctx[j].surah, ctx[j].ayah)]

\* the catch block, lines 461-471
fallbackResponse(text) ==
    [answer_markdown |-> text,
     citations |-> parseCitations(text),
     uncertainty |-> ParsingAdvisory]

parseJsonResponse(text, ctx) ==
    LET jsonStr == stripFence(text)
    IN  IF tryThrows(jsonStr) THEN fallbackResponse(text)
        ELSE LET v          == JsonParse(jsonStr)
                 answer     == coerceAnswer(fieldOf(v, "answer_markdown"))
                 structured == coerceCitations(fieldOf(v, "citations"))
                 unc        == coerceUncertainty(fieldOf(v, "uncertainty"))
                 validation == validateCitationsAgainstContext(answer, contextRefsOf(ctx))
             IN  [answer_markdown |-> answer,
                  citations |-> unionCitations(structured, parseCitations(answer)),
                  uncertainty |-> IF ~validation.valid /\ unc = Null
                                  THEN ContextAdvisory ELSE unc]

(***************************************************************************)
(* Inputs of the model: retrieved contexts, upstream chunks, thrown values. *)
(***************************************************************************)
Contexts == {<<>>, <<Ref(3, 1)>>, <<Ref(2, 5), Ref(3, 1)>>}

\* delta.content of one upstream chunk; <<>> stands for "", null and undefined
Chunks == {<<>>, <<"a">>, <<"(", "2", ":">>, <<"5", ")">>}

\* values the completion collaborator can throw; the last is not an Error
MissingKey == [isError |-> TRUE, message |-> <<"Missing ", "OPENAI_API_KEY">>]
Throwables == {[isError |-> TRUE, message |-> <<"Connection error.">>],
               [isError |-> FALSE, message |-> <<"aborted">>]}

(***************************************************************************)
(* Streaming adapter: createStreamingResponse and streamChatResponse.      *)
(* JavaScript runs start() without interruption between two awaits, so an  *)
(* action is the code from one await to the next.  The awaits are the      *)
(* completion call (spc = "create") and the next chunk of its stream       *)
(* (spc = "pull").                                                         *)
(***************************************************************************)
contextEvent(ctx) == [type |-> "context", data |-> ctx]
textEvent(chunk) == [type |-> "text", data |-> chunk]
doneEvent(fc) ==
    [type |-> "done", data |-> [citations |-> parseCitations(fc), fullContent |-> fc]]
errorEvent(err) ==
    [type |-> "error",
     data |-> IF err.isError THEN err.message ELSE <<"Unknown error">>]

\* controller.enqueue throws a TypeError unless the stream is readable
canEnqueue == channel = "readable"

\* the catch block of start(): enqueue the error event, close.  On a channel
\* the caller cancelled the enqueue throws inside the catch block and the
\* promise of start() rejects.
catchBlock_NoClose(err) ==
    IF canEnqueue
    THEN /\ events' = Append(events, errorEvent(err))
         /\ channel' = channel
         /\ spc' = "errored"
    ELSE /\ spc' = "rejected"
         /\ UNCHANGED <<events, channel>>
catchBlock(err) ==
    IF canEnqueue
    THEN /\ events' = Append(events, errorEvent(err))
         /\ channel' = "closed"
         /\ spc' = "errored"
    ELSE /\ spc' = "rejected"
         /\ UNCHANGED <<events, channel>>

\* new ReadableStream({start}): the context event is enqueued, the generator
\* is created and its first next() runs getOpenAIClient and issues the call.
StartStream_NoContext(keyPresent) ==
    /\ spc = "init"
    /\ IF keyPresent
       THEN /\ spc' = "create"
            /\ upstream' = "creating"
            /\ UNCHANGED <<events, channel>>
       ELSE /\ upstream' = "failed"
            /\ events' = <<errorEvent(MissingKey)>>
            /\ channel' = "closed"
            /\ spc' = "errored"
    /\ UNCHANGED <<context, fullContent, pulled>>
StartStream(keyPresent) ==
    /\ spc = "init"
    /\ IF keyPresent
       THEN /\ events' = <<contextEvent(context)>>
            /\ spc' = "create"
            /\ upstream' = "creating"
            /\ UNCHANGED channel
       ELSE /\ upstream' = "failed"
            /\ events' = <<contextEvent(context), errorEvent(MissingKey)>>
            /\ channel' = "closed"
            /\ spc' = "errored"
    /\ UNCHANGED <<context, fullContent, pulled>>

\* await client.chat.completions.create(...) resolves with the stream
CreateResolves ==
    /\ spc = "create"
    /\ spc' = "pull"
    /\ upstream' = "open"
    /\ UNCHANGED <<context, events, fullContent, channel, pulled>>

\* ... or rejects
CreateRejects(err) ==
    /\ spc = "create"
    /\ upstream' = "failed"
    /\ catchBlock(err)
    /\ UNCHANGED <<context, fullContent, pulled>>

\* if (content) yield content
yields_Always(chunk) == TRUE
yields(chunk) == chunk # <<>>

\* for await (const chunk of stream): one chunk arrives.  A chunk without
\* content is skipped and the next one is awaited; a fragment is yielded to
\* the loop of start(), which appends it to fullContent and enqueues a text
\* event.  When that enqueue throws, the for await of start() closes the
\* generator (return()), and the catch block runs.
ChunkArrives(chunk) ==
    /\ spc = "pull"
    /\ pulled < MaxChunks
    /\ pulled' = pulled + 1
    /\ IF ~yields(chunk)
       THEN UNCHANGED <<spc, events, fullContent, channel, upstream>>
       ELSE /\ fullContent' = fullContent \o chunk
            /\ IF canEnqueue
               THEN /\ events' = Append(events, textEvent(chunk))
                    /\ UNCHANGED <<spc, channel, upstream>>
               ELSE /\ upstream' = "returned"
                    /\ spc' = "rejected"
                    /\ UNCHANGED <<events, channel>>
    /\ UNCHANGED context

\* the upstream stream ends: the generator returns, the loop of start() ends
StreamEnds ==
    /\ spc = "pull"
    /\ upstream' = "ended"
    /\ IF canEnqueue
       THEN /\ events' = Append(events, doneEvent(fullContent))
            /\ channel' = "closed"
            /\ spc' = "done"
       ELSE /\ spc' = "rejected"
            /\ UNCHANGED <<events, channel>>
    /\ UNCHANGED <<context, fullContent, pulled>>

\* the upstream stream throws while a chunk is awaited
StreamThrows(err) ==
    /\ spc = "pull"
    /\ upstream' = "failed"
    /\ catchBlock(err)
    /\ UNCHANGED <<context, fullContent, pulled>>

\* the caller disconnects: the ReadableStream is cancelled.  The underlying
\* source has no cancel() and no AbortSignal is given to the completion
\* call, so nothing but the state of the channel changes.
Cancel ==
    /\ spc \in {"create", "pull"}
    /\ channel = "readable"
    /\ channel' = "cancelled"
    /\ UNCHANGED <<context, spc, events, fullContent, upstream, pulled>>

StreamIdle ==
    /\ spc = "init" /\ events = <<>> /\ fullContent = <<>>
    /\ channel = "readable" /\ upstream = "idle" /\ pulled = 0

NoAnswer == [answer_markdown |-> <<>>, citations |-> <<>>, uncertainty |-> Null]

GenIdle ==
    /\ gpc = "off" /\ entry = "none" /\ acceptsStream = FALSE
    /\ draftAnswer = NoAnswer /\ verifiedAnswer = NoAnswer /\ response = NoAnswer
    /\ genCalls = 0 /\ verifyCalls = 0 /\ streamOpened = FALSE

ParseIdle == ppc = "off" /\ content = <<>> /\ parsed = NoAnswer

NoValidation == [valid |-> TRUE, invalidCitations |-> <<>>]

CiteIdle ==
    /\ citeText = <<>> /\ citeRefs = <<>> /\ called = {}
    /\ parsedCitations = <<>> /\ hasCitation = FALSE
    /\ validationResult = NoValidation /\ dedupedRefs = <<>>

QueryIdle == qpc = "off" /\ query = <<>> /\ expanded = <<>>

\* validation.data before there is one; an undefined history is written <<>>
NoData == [message |-> <<>>, history |-> <<>>]

\* response.output_text before the LLM call of the rewrite has ended
NoOutput == [t |-> "none"]

RewriteIdle ==
    /\ rwQuery = <<>> /\ rwHistory = <<>> /\ rwOutput = NoOutput
    /\ rwResult = <<>> /\ rwCaller = "none" /\ rewriteCalls = 0

\* body before request.json() has resolved
NoBody == [t |-> "unread"]

RequestIdle ==
    /\ reqIp = "none" /\ limited = FALSE /\ bodyRead = FALSE /\ reqBody = NoBody
    /\ status = 0 /\ validated = NoData

RetrievalIdle == retrievalCalls = 0 /\ retrievalQuery = <<>>

\* values of the x-forwarded-for and x-real-ip headers; "" is a header that
\* is not there
HeaderValues == {"", "a"}
IPs == {"a", "anonymous"}

\* requestCounts.get(ip) of an ip the Map has no record for
NoRecord == [present |-> FALSE, count |-> 0, resetTime |-> 0]

\* the module-level state of route.ts after the module is loaded
LimiterFresh ==
    /\ now = 0 /\ ticks = 0
    /\ requestCounts = [ip \in IPs |-> NoRecord]

NoReply == [status |-> 0, body |-> "none"]
RetrieveIdle ==
    /\ tpc = "off"
    /\ englishResults = <<>> /\ anchors = <<>> /\ uniqueRefs = <<>>
    /\ enData = <<>> /\ retrieved = <<>>
    /\ thrown = <<>> /\ failedCalls = {} /\ reply = NoReply

RouteIdle ==
    /\ LimiterFresh
    /\ rpc = "off" /\ RequestIdle /\ RewriteIdle /\ RetrievalIdle

InitStream ==
    /\ context \in Contexts
    /\ StreamIdle /\ GenIdle /\ ParseIdle
    /\ CiteIdle /\ QueryIdle /\ RouteIdle /\ RetrieveIdle

NextStream ==
    \/ \E k \in BOOLEAN : StartStream(k) /\ UNCHANGED <<genVars, parseVars, citeVars, queryVars, routeVars, retrieveVars>>
    \/ CreateResolves /\ UNCHANGED <<genVars, parseVars, citeVars, queryVars, routeVars, retrieveVars>>
    \/ \E e \in Throwables : CreateRejects(e) /\ UNCHANGED <<genVars, parseVars, citeVars, queryVars, routeVars, retrieveVars>>
    \/ \E c \in Chunks : ChunkArrives(c) /\ UNCHANGED <<genVars, parseVars, citeVars, queryVars, routeVars, retrieveVars>>
    \/ StreamEnds /\ UNCHANGED <<genVars, parseVars, citeVars, queryVars, routeVars, retrieveVars>>
    \/ \E e \in Throwables : StreamThrows(e) /\ UNCHANGED <<genVars, parseVars, citeVars, queryVars, routeVars, retrieveVars>>
    \/ Cancel /\ UNCHANGED <<genVars, parseVars, citeVars, queryVars, routeVars, retrieveVars>>

SpecStream == InitStream /\ [][NextStream]_vars

(***************************************************************************)
(* Properties of the streaming adapter.                                    *)
(***************************************************************************)
Terminal == {"done", "error"}

EventTypes(evs, T) == {i \in 1 .. Len(evs) : evs[i].type \in T}

\* concatenation of the data of the text events, in emission order
RECURSIVE TextOf(_)
TextOf(evs) ==
    IF evs = <<>> THEN <<>>
    ELSE IF Head(evs).type = "text" THEN Head(evs).data \o TextOf(Tail(evs))
         ELSE TextOf(Tail(evs))

LastEvent == events[Len(events)]

\* C1: whatever the completion collaborator does, the emitted events are one
\* context event first, carrying the whole context and emitted before any chunk
\* is pulled, then text events only, then at most one terminal event (done or
\* error) after which nothing is emitted; and once start() has ended on a
\* channel the caller did not cancel, the terminal event is there, exactly one.
C1_EventOrder ==
    /\ (spc # "init") => Len(events) >= 1
    /\ (pulled > 0 \/ upstream # "idle") => Len(events) >= 1
    /\ Len(events) >= 1 => events[1] = contextEvent(context)
    /\ \A i \in 2 .. Len(events) : events[i].type # "context"
    /\ \A i \in 2 .. Len(events) - 1 : events[i].type = "text"
    /\ \A i \in EventTypes(events, Terminal) : i = Len(events)
    /\ (spc \in {"done", "errored"}) =>
          /\ Cardinality(EventTypes(events, Terminal)) = 1
          /\ channel = "closed"
    /\ (channel = "closed") => LastEvent.type \in Terminal
    /\ (spc = "rejected") => channel = "cancelled"

C1_Witness ==
    /\ spc = "errored"
    /\ Len(events) = 4
    /\ events[2].type = "text" /\ events[3].type = "text"
    /\ events[4].type = "error"

\* C2 (as claimed): once the caller has cancelled the response stream, no
\* further chunk is pulled from the completion collaborator and no further
\* event is enqueued.
C2_CancelStopsUpstream ==
    [][channel = "cancelled" => (pulled' = pulled /\ events' = events)]_vars

\* C3: when the completion call throws, before the first fragment or after
\* any number of them, and the caller has not cancelled, the stream holds
\* exactly one error event, which carries a message and is the last event, no
\* done event, the channel is closed, and the text events emitted before the
\* throw are all still there (their concatenation is fullContent).
C3_ErrorEvent ==
    (upstream = "failed" /\ channel # "cancelled") =>
        /\ Cardinality(EventTypes(events, {"error"})) = 1
        /\ EventTypes(events, {"done"}) = {}
        /\ LastEvent.type = "error"
        /\ LastEvent.data # <<>>
        /\ channel = "closed"
        /\ spc = "errored"
        /\ TextOf(events) = fullContent

C3_Witness ==
    /\ upstream = "failed"
    /\ channel = "closed"
    /\ Len(TextOf(events)) >= 3
    /\ LastEvent = [type |-> "error", data |-> <<"Connection error.">>]

\* C4: in a stream that ended with done, the concatenation of the text
\* events equals done.fullContent, done.citations is parseCitations of that
\* text (whether or not the verses are in the context), and no text event is
\* empty: an empty fragment is pulled but not emitted.
C4_DoneMatchesText ==
    (spc = "done") =>
        /\ LastEvent.type = "done"
        /\ LastEvent.data.fullContent = TextOf(events)
        /\ LastEvent.data.citations = parseCitations(TextOf(events))
        /\ \A i \in EventTypes(events, {"text"}) : events[i].data # <<>>
        /\ Cardinality(EventTypes(events, {"text"})) <= pulled

C4_Witness ==
    /\ spc = "done"
    /\ context = <<Ref(3, 1)>>
    /\ LastEvent.data.citations = <<Ref(2, 5)>>
    /\ Cardinality(EventTypes(events, {"text"})) = 2
    /\ pulled = 3

(***************************************************************************)
(* Answer generator: generateVerifiedAnswer with generateAnswer and        *)
(* verifyAnswer, and the part of the route's POST that follows retrieval.  *)
(* An action is the code from one await to the next; the awaits are the    *)
(* two completion calls.                                                   *)
(***************************************************************************)
\* completions the verification call returns in the model: an answer with a
\* citation in every paragraph, one with a paragraph without citation, one
\* with no citation at all, one with its own uncertainty, prose, and ""
VerifyContents ==
    {fenced("json", renderJson(Obj(Str(<<"a", " ", "(", "2", ":", "5", ")">>),
                                   Arr(<<Cit(2, 5)>>), Null))),
     renderJson(Obj(Str(<<"a", " ", "(", "2", ":", "5", ")", "\n", "\n", "b">>),
                    Arr(<<Cit(2, 5)>>), Null)),
     renderJson(Obj(Str(<<"a">>), Arr(<<>>), Null)),
     renderJson(Obj(Str(<<"a">>), Arr(<<Cit(3, 1)>>), Str(<<"u">>))),
     <<"(", "2", ":", "5", ")">>,
     <<>>}

EmptyContextAnswer ==
    [answer_markdown |-> <<"I could not find relevant Quran verses to answer your question. Could you please rephrase or provide more context about what you're looking for?">>,
     citations |-> <<>>,
     uncertainty |-> Str(<<"No relevant verses found in the database.">>)]

RouteEmptyContextAnswer ==
    [answer_markdown |-> <<"I could not find relevant Quran verses to answer your question. Could you please rephrase or provide more context?">>,
     citations |-> <<>>,
     uncertainty |-> Str(<<"No relevant verses found.">>)]

ExplorerHint ==
    <<"\n", "\n", "-", "-", "-", "\n", "\n",
      "**View these verses in context** in the Ayah Explorer tab above.">>

\* steps 2 and 3 of generateVerifiedAnswer: the condition of the verification
needsVerification_And(draft) ==
    /\ \E j \in 1 .. Len(splitIntoParagraphs(draft.answer_markdown)) :
          ~paragraphHasCitation(splitIntoParagraphs(draft.answer_markdown)[j])
    /\ Len(draft.citations) = 0
needsVerification(draft) ==
    LET paragraphs == splitIntoParagraphs(draft.answer_markdown)
        allParagraphsHaveCitations ==
            \A j \in 1 .. Len(paragraphs) : paragraphHasCitation(paragraphs[j])
    IN  ~allParagraphsHaveCitations \/ Len(draft.citations) = 0

\* step 4: the explorer prompt is appended when there are citations
finalize(answer) ==
    IF Len(answer.citations) > 0
    THEN [answer EXCEPT !.answer_markdown = trimEnd(@) \o ExplorerHint]
    ELSE answer

\* generateVerifiedAnswer up to its first await: the empty-context return,
\* or generateAnswer, whose getOpenAIClient throws without a key and which
\* otherwise issues the generation call
enterGenerateVerifiedAnswer(keyPresent) ==
    IF Len(context) = 0
    THEN /\ response' = EmptyContextAnswer
         /\ gpc' = "returned"
         /\ UNCHANGED genCalls
    ELSE IF ~keyPresent
    THEN /\ gpc' = "threw"
         /\ UNCHANGED <<response, genCalls>>
    ELSE /\ genCalls' = genCalls + 1
         /\ gpc' = "generating"
         /\ UNCHANGED response

CallGenerateVerifiedAnswer(keyPresent) ==
    /\ entry = "direct"
    /\ gpc = "start"
    /\ enterGenerateVerifiedAnswer(keyPresent)
    /\ UNCHANGED <<context, entry, acceptsStream, draftAnswer, verifiedAnswer,
                   verifyCalls, streamOpened>>

\* route.ts, steps 5 and 6: what POST does with the retrieved context
postBranch_StreamFirst(ctx, stream) ==
    IF stream THEN "stream" ELSE IF Len(ctx) = 0 THEN "empty" ELSE "sync"
postBranch(ctx, stream) ==
    IF Len(ctx) = 0 THEN "empty" ELSE IF stream THEN "stream" ELSE "sync"

PostDispatch(keyPresent) ==
    /\ entry = "post"
    /\ gpc = "start"
    /\ LET branch == postBranch(context, acceptsStream)
       IN  CASE branch = "empty" ->
                  /\ response' = RouteEmptyContextAnswer
                  /\ gpc' = "returned"
                  /\ UNCHANGED <<genCalls, streamOpened>>
             [] branch = "stream" ->
                  /\ streamOpened' = TRUE
                  /\ gpc' = "streaming"
                  /\ UNCHANGED <<response, genCalls>>
             [] branch = "sync" ->
                  /\ enterGenerateVerifiedAnswer(keyPresent)
                  /\ UNCHANGED streamOpened
    /\ UNCHANGED <<context, entry, acceptsStream, draftAnswer, verifiedAnswer,
                   verifyCalls>>

\* the generation call resolves with the completion text c: parse, check the
\* paragraphs, and either issue the verification call or return the draft
GenResolves(c) ==
    /\ gpc = "generating"
    /\ LET draft == parseJsonResponse(c, context)
       IN  /\ draftAnswer' = draft
           /\ IF needsVerification(draft)
              THEN /\ verifyCalls' = verifyCalls + 1
                   /\ gpc' = "verifying"
                   /\ UNCHANGED response
              ELSE /\ response' = finalize(draft)
                   /\ gpc' = "returned"
                   /\ UNCHANGED verifyCalls
    /\ UNCHANGED <<context, entry, acceptsStream, verifiedAnswer, genCalls,
                   streamOpened>>

\* the generation call rejects: the rejection leaves generateVerifiedAnswer
GenRejects ==
    /\ gpc = "generating"
    /\ gpc' = "threw"
    /\ UNCHANGED <<context, entry, acceptsStream, draftAnswer, verifiedAnswer,
                   response, genCalls, verifyCalls, streamOpened>>

\* the verification call resolves: its parsed output is the final answer
VerifyResolves_Loop(c) ==
    /\ gpc = "verifying"
    /\ LET verified == parseJsonResponse(c, context)
       IN  /\ verifiedAnswer' = verified
           /\ IF needsVerification(verified) /\ verifyCalls < 2
              THEN /\ verifyCalls' = verifyCalls + 1
                   /\ UNCHANGED <<gpc, response>>
              ELSE /\ response' = finalize(verified)
                   /\ gpc' = "returned"
                   /\ UNCHANGED verifyCalls
    /\ UNCHANGED <<context, entry, acceptsStream, draftAnswer, genCalls,
                   streamOpened>>
VerifyResolves(c) ==
    /\ gpc = "verifying"
    /\ LET verified == parseJsonResponse(c, context)
       IN  /\ verifiedAnswer' = verified
           /\ response' = finalize(verified)
           /\ gpc' = "returned"
    /\ UNCHANGED <<context, entry, acceptsStream, draftAnswer, genCalls,
                   verifyCalls, streamOpened>>

VerifyRejects ==
    /\ gpc = "verifying"
    /\ gpc' = "threw"
    /\ UNCHANGED <<context, entry, acceptsStream, draftAnswer, verifiedAnswer,
                   response, genCalls, verifyCalls, streamOpened>>

InitGen ==
    /\ context \in Contexts
    /\ entry \in {"direct", "post"}
    /\ acceptsStream \in BOOLEAN
    /\ (entry = "direct") => ~acceptsStream
    /\ gpc = "start"
    /\ draftAnswer = NoAnswer /\ verifiedAnswer = NoAnswer /\ response = NoAnswer
    /\ genCalls = 0 /\ verifyCalls = 0 /\ streamOpened = FALSE
    /\ StreamIdle /\ ParseIdle
    /\ CiteIdle /\ QueryIdle /\ RouteIdle /\ RetrieveIdle

NextGen ==
    \/ \E k \in BOOLEAN : CallGenerateVerifiedAnswer(k) /\ UNCHANGED <<streamVars, parseVars, citeVars, queryVars, routeVars, retrieveVars>>
    \/ \E k \in BOOLEAN : PostDispatch(k) /\ UNCHANGED <<streamVars, parseVars, citeVars, queryVars, routeVars, retrieveVars>>
    \/ \E c \in Completions : GenResolves(c) /\ UNCHANGED <<streamVars, parseVars, citeVars, queryVars, routeVars, retrieveVars>>
    \/ GenRejects /\ UNCHANGED <<streamVars, parseVars, citeVars, queryVars, routeVars, retrieveVars>>
    \/ \E c \in VerifyContents : VerifyResolves(c) /\ UNCHANGED <<streamVars, parseVars, citeVars, queryVars, routeVars, retrieveVars>>
    \/ VerifyRejects /\ UNCHANGED <<streamVars, parseVars, citeVars, queryVars, routeVars, retrieveVars>>

SpecGen == InitGen /\ [][NextGen]_vars

(***************************************************************************)
(* Properties of the answer generator.                                     *)
(***************************************************************************)
\* C5: with an empty verse list the pipeline returns the fixed "could not
\* find relevant verses" response, with no citation and a non-null
\* uncertainty, and calls no completion collaborator: in generateVerifiedAnswer
\* and in POST, in the streaming and in the synchronous mode, where no stream
\* is opened and no generation or verification call is made.
C5_EmptyContext ==
    (context = <<>>) =>
        /\ genCalls = 0 /\ verifyCalls = 0 /\ ~streamOpened
        /\ gpc \in {"start", "returned"}
        /\ (gpc = "returned") =>
              /\ response \in {EmptyContextAnswer, RouteEmptyContextAnswer}
              /\ response.citations = <<>>
              /\ response.uncertainty # Null

C5_Witness ==
    /\ context = <<>> /\ entry = "post" /\ acceptsStream
    /\ gpc = "returned" /\ response = RouteEmptyContextAnswer

\* a draft with no citation at all, or with a paragraph (text between blank
\* lines) that holds no citation token; a token is what paragraphHasCitation
\* accepts, a reference or range in brackets or parentheses
DraftLacksCitation(draft) ==
    \/ draft.citations = <<>>
    \/ \E para \in SeqSet(splitIntoParagraphs(draft.answer_markdown)) :
          ~paragraphHasCitation(para)

C7_AtMostTwoCalls ==
    /\ genCalls <= 1 /\ verifyCalls <= 1
    /\ (verifyCalls = 1) => genCalls = 1
    /\ (gpc = "threw") => response = NoAnswer
    /\ (gpc = "returned" /\ verifyCalls = 1) =>
          /\ response.citations = verifiedAnswer.citations
          /\ response.uncertainty = verifiedAnswer.uncertainty
          /\ response.answer_markdown =
                IF verifiedAnswer.citations # <<>>
                THEN trimEnd(verifiedAnswer.answer_markdown) \o ExplorerHint
                ELSE verifiedAnswer.answer_markdown

C7_Witness ==
    /\ gpc = "returned" /\ verifyCalls = 1 /\ genCalls = 1
    /\ DraftLacksCitation(verifiedAnswer)
    /\ response.citations = <<Ref(2, 5)>>

(***************************************************************************)
(* parseJsonResponse as a function of the completion text and the context. *)
(***************************************************************************)
InitParse ==
    /\ context \in Contexts
    /\ content \in Completions
    /\ ppc = "input"
    /\ parsed = NoAnswer
    /\ StreamIdle /\ GenIdle
    /\ CiteIdle /\ QueryIdle /\ RouteIdle /\ RetrieveIdle

ParseJsonResponse ==
    /\ ppc = "input"
    /\ parsed' = parseJsonResponse(content, context)
    /\ ppc' = "returned"
    /\ UNCHANGED <<context, content, streamVars, genVars, citeVars, queryVars, routeVars, retrieveVars>>

NextParse == ParseJsonResponse

SpecParse == InitParse /\ [][NextParse]_vars

(***************************************************************************)
(* Properties of parseJsonResponse.                                        *)
(***************************************************************************)
\* the {answer_markdown, citations, uncertainty} schema of the prompts
SchemaValid(v) ==
    /\ v.t = "obj"
    /\ v.am.t = "str"
    /\ v.cit.t = "arr"
    /\ \A j \in 1 .. Len(v.cit.a) : v.cit.a[j].t = "cit"
    /\ v.unc.t \in {"null", "str"}

Malformed(text) ==
    \/ ~isJson(stripFence(text))
    \/ ~SchemaValid(JsonParse(stripFence(text)))

\* C8 (as claimed): parseJsonResponse returns for every completion text, and
\* for a text that is no JSON, or is JSON that violates the schema, it returns
\* the raw text as answer_markdown, parseCitations of the raw text as
\* citations and the fixed parsing-issue uncertainty.
C8_MalformedFallsBack ==
    (ppc = "returned" /\ Malformed(content)) =>
        parsed = [answer_markdown |-> content,
                  citations |-> parseCitations(content),
                  uncertainty |-> ParsingAdvisory]

\* the call took the valid-JSON path: the try block ran to its return
JsonPath == ppc = "returned" /\ ~tryThrows(stripFence(content))
StructuredOf(text) == coerceCitations(fieldOf(JsonParse(stripFence(text)), "citations"))
InContext(c) == \E j \in 1 .. Len(context) : RefKey(context[j]) = RefKey(c)

\* C9 (as claimed): on the valid-JSON path, a citation of the union (from the
\* structured field or parsed from the answer text) that is no verse of the
\* context makes the returned uncertainty non-null, and the citation is still
\* among the returned citations.
C9_OutsideContextFlagged ==
    JsonPath =>
        \A c \in SeqSet(StructuredOf(content))
                 \cup SeqSet(parseCitations(parsed.answer_markdown)) :
            ~InContext(c) => (parsed.uncertainty # Null /\ c \in SeqSet(parsed.citations))

\* C10: on the valid-JSON path the returned citations are the structured
\* citations, in their order, followed by the citations parsed from the
\* answer text that were not yet present, each once, in the order of their
\* first occurrence in the text; no citation of either source is missing.
C10_CitationUnion ==
    JsonPath =>
        LET structured == StructuredOf(content)
            fromText   == parseCitations(parsed.answer_markdown)
            n          == Len(structured)
            result     == parsed.citations
        IN  /\ Len(result) >= n
            /\ SubSeq(result, 1, n) = structured
            /\ SeqSet(fromText) \subseteq SeqSet(result)
            /\ \A j \in (n + 1) .. Len(result) :
                  /\ result[j] \in SeqSet(fromText)
                  /\ result[j] \notin SeqSet(structured)
                  /\ \A k \in (j + 1) .. Len(result) :
                        /\ result[k] # result[j]
                        /\ FirstIndex(fromText, result[j]) < FirstIndex(fromText, result[k])

C10_Witness ==
    /\ JsonPath
    /\ StructuredOf(content) = <<Ref(3, 1), Ref(2, 5)>>
    /\ parseCitations(parsed.answer_markdown) = <<Ref(2, 5), Ref(2, 5), Ref(2, 6)>>
    /\ parsed.citations = <<Ref(3, 1), Ref(2, 5), Ref(2, 6)>>

(***************************************************************************)
(* Range of the citations the answer generator returns.                    *)
(***************************************************************************)
InRange(c) ==
    /\ c.surah \in 1 .. MaxSurah
    /\ c.ayah \in 1 .. MaxAyah

\* C11 (as claimed): every citation of a ChatResponse that
\* generateVerifiedAnswer returns, from the generation pass, the verification
\* pass or the raw-text fallback, has a surah in 1..114 and an ayah in
\* 1..286, the citations of the structured citations field included.
C11_CitationsInRange ==
    (gpc = "returned") => \A c \in SeqSet(response.citations) : InRange(c)

(***************************************************************************)
(* The citation functions as functions of their arguments.  A text of the  *)
(* model is one citation token, written from its numbers, or a few tokens  *)
(* and words; a reference list is a short list over a pool of references.  *)
(***************************************************************************)
Styles == {"bare", "paren", "square"}
SurahNumbers == {0, 2, 114, 115, 1112}
AyahNumbers == {0, 5, 286, 287, 999, 1000}
EndNumbers == {3, 7, 290, 1000}
MaxRefs == 3      \* length of a reference list at most

TokenShapes ==
    [style : Styles, surah : SurahNumbers, ayah : AyahNumbers,
     dash : {"none", "-", "EN"}, end : EndNumbers]

\* the token as an answer spells it: (S:A), [S:A-B], S:A ...
Token(d) ==
    (CASE d.style = "paren" -> <<"(">> [] d.style = "square" -> <<"[">>
       [] OTHER -> <<>>)
    \o NumberToString(d.surah) \o <<":">> \o NumberToString(d.ayah)
    \o (IF d.dash = "none" THEN <<>> ELSE <<d.dash>> \o NumberToString(d.end))
    \o (CASE d.style = "paren" -> <<")">> [] d.style = "square" -> <<"]">>
          [] OTHER -> <<>>)

Shape(style, s, a, dash, e) ==
    [style |-> style, surah |-> s, ayah |-> a, dash |-> dash, end |-> e]

TokenTexts ==
    {Token(d) : d \in {x \in TokenShapes : x.dash # "-" => x.end = 7}}

\* texts with no token, with several tokens, with words around a token
MixedTexts ==
    {<<>>, <<"a", "b", "c">>, <<"1", "2", " ", ":", "5">>,
     Token(Shape("paren", 2, 5, "none", 7)) \o <<" ">>
        \o Token(Shape("paren", 1, 1, "none", 7)),
     Token(Shape("paren", 2, 5, "-", 7)) \o <<" ">>
        \o Token(Shape("paren", 2, 5, "none", 7)),
     Token(Shape("paren", 114, 286, "-", 290)) \o <<" ">>
        \o Token(Shape("paren", 2, 5, "EN", 7)),
     <<"s", "e", "e", " ">> \o Token(Shape("square", 2, 5, "-", 7)) \o <<",", " ">>
        \o Token(Shape("bare", 1, 1, "none", 7)) \o <<" ">>
        \o Token(Shape("paren", 115, 1, "none", 7)) \o <<".">>}

Tagged(s, a, g) == [surah |-> s, ayah |-> a, english |-> g]

RefPool == {Ref(2, 5), Ref(2, 6), Ref(1, 1), Tagged(2, 5, "b")}

RECURSIVE SeqsUpTo(_, _)
SeqsUpTo(S, n) ==
    IF n = 0 THEN {<<>>}
    ELSE LET shorter == SeqsUpTo(S, n - 1)
         IN  shorter \cup {Append(q, x) : q \in shorter, x \in S}

RefLists == SeqsUpTo(RefPool, MaxRefs)

InitCite ==
    /\ \/ citeText \in TokenTexts /\ citeRefs \in {<<>>, <<Ref(2, 6), Ref(2, 5)>>}
       \/ citeText \in MixedTexts /\ citeRefs \in RefLists
    /\ called = {}
    /\ parsedCitations = <<>> /\ hasCitation = FALSE
    /\ validationResult = NoValidation /\ dedupedRefs = <<>>
    /\ context = <<>>
    /\ StreamIdle /\ GenIdle /\ ParseIdle /\ QueryIdle /\ RouteIdle /\ RetrieveIdle

ParseCitations ==
    /\ "parseCitations" \notin called
    /\ parsedCitations' = parseCitations(citeText)
    /\ called' = called \cup {"parseCitations"}
    /\ UNCHANGED <<citeText, citeRefs, hasCitation, validationResult, dedupedRefs>>

ParagraphHasCitation ==
    /\ "paragraphHasCitation" \notin called
    /\ hasCitation' = paragraphHasCitation(citeText)
    /\ called' = called \cup {"paragraphHasCitation"}
    /\ UNCHANGED <<citeText, citeRefs, parsedCitations, validationResult, dedupedRefs>>

ValidateCitationsAgainstContext ==
    /\ "validateCitationsAgainstContext" \notin called
    /\ validationResult' = validateCitationsAgainstContext(citeText, citeRefs)
    /\ called' = called \cup {"validateCitationsAgainstContext"}
    /\ UNCHANGED <<citeText, citeRefs, parsedCitations, hasCitation, dedupedRefs>>

DedupeRefs ==
    /\ "dedupeRefs" \notin called
    /\ dedupedRefs' = dedupeRefs(citeRefs)
    /\ called' = called \cup {"dedupeRefs"}
    /\ UNCHANGED <<citeText, citeRefs, parsedCitations, hasCitation, validationResult>>

NextCite ==
    \/ ParseCitations /\ UNCHANGED <<context, streamVars, genVars, parseVars, queryVars, routeVars, retrieveVars>>
    \/ ParagraphHasCitation /\ UNCHANGED <<context, streamVars, genVars, parseVars, queryVars, routeVars, retrieveVars>>
    \/ ValidateCitationsAgainstContext /\ UNCHANGED <<context, streamVars, genVars, parseVars, queryVars, routeVars, retrieveVars>>
    \/ DedupeRefs /\ UNCHANGED <<context, streamVars, genVars, parseVars, queryVars, routeVars, retrieveVars>>

SpecCite == InitCite /\ [][NextCite]_vars

(***************************************************************************)
(* Properties of the citation functions.                                   *)
(***************************************************************************)
\* C12 (as claimed): for every paragraph, paragraphHasCitation is true if and
\* only if parseCitations of the same text is non-empty, whether the token is
\* bare, bracketed or parenthesised, single or a range, in or out of range.
C12_HasCitationIffParsed ==
    ({"parseCitations", "paragraphHasCitation"} \subseteq called) =>
        (hasCitation <=> parsedCitations # <<>>)

\* a is a run of consecutive elements of b
IsInfix(a, b) ==
    \E i \in 0 .. (Len(b) - Len(a)) : SubSeq(b, i + 1, i + Len(a)) = a

\* the parenthesised tokens whose surah and (first) ayah are in range
RoundTripTokens ==
    {d \in TokenShapes : /\ d.style = "paren"
                         /\ d.surah \in 1 .. MaxSurah
                         /\ d.ayah \in 1 .. MaxAyah}

\* the citations the claim promises for a token: {S, A}, or one for every
\* integer ayah from A to min(B, 286), ascending
Promised(d) ==
    IF d.dash = "none" THEN <<Ref(d.surah, d.ayah)>>
    ELSE LET last == Min(d.end, MaxAyah)
         IN  [j \in 1 .. (IF last >= d.ayah THEN last - d.ayah + 1 ELSE 0) |->
                 Ref(d.surah, d.ayah + j - 1)]

\* C13 (as claimed): for a text that contains a token (S:A) with S in 1..114
\* and A in 1..286, parseCitations returns the citation {S, A}; for a token
\* (S:A-B), with a hyphen or an en dash, it returns one citation for every
\* integer ayah from A to min(B, 286), ascending; and the citations of two
\* tokens come in the order of the tokens.
C13_RoundTrip ==
    ("parseCitations" \in called) =>
        /\ \A d \in RoundTripTokens :
              IsInfix(Token(d), citeText) => IsInfix(Promised(d), parsedCitations)
        /\ \A d1, d2 \in RoundTripTokens :
              (citeText = Token(d1) \o <<" ">> \o Token(d2)) =>
                  parsedCitations = Promised(d1) \o Promised(d2)

\* the tokens whose surah or (first) ayah is out of range
OutOfRangeTokens ==
    {d \in TokenShapes : d.surah \notin 1 .. MaxSurah \/ d.ayah \notin 1 .. MaxAyah}

\* C14 (as claimed): parseCitations returns for every text, every citation it
\* returns has a surah in 1..114 and an ayah in 1..286, and for a text that
\* is one token whose surah or ayah number is out of range, such as (115:1)
\* or (2:999), it returns no citation.
C14_OutOfRangeDropped ==
    ("parseCitations" \in called) =>
        /\ \A c \in SeqSet(parsedCitations) : InRange(c)
        /\ \A d \in OutOfRangeTokens :
              (citeText = Token(d)) => parsedCitations = <<>>

\* a reference of the list refs has the surah:ayah key of c
KeyIn(c, refs) ==
    \E j \in 1 .. Len(refs) : refs[j].surah = c.surah /\ refs[j].ayah = c.ayah

\* C15: validateCitationsAgainstContext returns for every answer and every
\* contextRefs; invalidCitations is the list of the citations parsed from the
\* answer, in the order parsed and as often as parsed, without those whose
\* surah:ayah key is a key of contextRefs; valid is true exactly when that
\* list is empty; and the call changes neither the answer nor contextRefs.
C15_InvalidCitations ==
    /\ []( ("validateCitationsAgainstContext" \in called) =>
             /\ validationResult.invalidCitations =
                    SelectSeq(parseCitations(citeText),
                              LAMBDA c : ~KeyIn(c, citeRefs))
             /\ validationResult.valid <=>
                    (\A c \in SeqSet(parseCitations(citeText)) : KeyIn(c, citeRefs)) )
    /\ [][citeText' = citeText /\ citeRefs' = citeRefs]_vars

\* (2:5-7) against the context [2:6, 2:5]: 2:7 alone is invalid
C15_Witness ==
    /\ "validateCitationsAgainstContext" \in called
    /\ citeRefs = <<Ref(2, 6), Ref(2, 5)>>
    /\ parseCitations(citeText) = <<Ref(2, 5), Ref(2, 6), Ref(2, 7)>>
    /\ validationResult = [valid |-> FALSE, invalidCitations |-> <<Ref(2, 7)>>]

\* index of the first reference of refs with the key of r
FirstWithKey(refs, r) ==
    CHOOSE j \in 1 .. Len(refs) :
        /\ RefKey(refs[j]) = RefKey(r)
        /\ \A k \in 1 .. (j - 1) : RefKey(refs[k]) # RefKey(r)

\* C16: dedupeRefs returns every surah:ayah key of its input exactly once;
\* the reference returned for a key is the first one of the input with that
\* key, and the references come in the order of these first occurrences;
\* dedupeRefs of the result is the result.
C16_DedupeRefs ==
    ("dedupeRefs" \in called) =>
        /\ {RefKey(r) : r \in SeqSet(dedupedRefs)} = {RefKey(r) : r \in SeqSet(citeRefs)}
        /\ \A i, j \in 1 .. Len(dedupedRefs) :
              (i < j) =>
                  /\ RefKey(dedupedRefs[i]) # RefKey(dedupedRefs[j])
                  /\ FirstWithKey(citeRefs, dedupedRefs[i])
                        < FirstWithKey(citeRefs, dedupedRefs[j])
        /\ \A j \in 1 .. Len(dedupedRefs) :
              dedupedRefs[j] = citeRefs[FirstWithKey(citeRefs, dedupedRefs[j])]
        /\ dedupeRefs(dedupedRefs) = dedupedRefs

\* the same key twice, with different fields, then another key
C16_Witness ==
    /\ "dedupeRefs" \in called
    /\ citeRefs = <<Ref(2, 5), Tagged(2, 5, "b"), Ref(1, 1)>>
    /\ dedupedRefs = <<Ref(2, 5), Ref(1, 1)>>

(***************************************************************************)
(* Query preprocessor: expandShortQuery (src/src/lib/retrieval.ts).        *)
(***************************************************************************)
UpperCase == <<"A", "B", "C", "D", "E", "F", "G", "H", "I", "J", "K", "L", "M", "N", "O", "P", "Q", "R", "S", "T", "U", "V", "W", "X", "Y", "Z">>
LowerCase == <<"a", "b", "c", "d", "e", "f", "g", "h", "i", "j", "k", "l", "m", "n", "o", "p", "q", "r", "s", "t", "u", "v", "w", "x", "y", "z">>

toLowerCase(t) ==
    [j \in 1 .. Len(t) |->
        IF \E k \in 1 .. 26 : UpperCase[k] = t[j]
        THEN LowerCase[CHOOSE k \in 1 .. 26 : UpperCase[k] = t[j]]
        ELSE t[j]]

\* \w of a regular expression
WordChars == SeqSet(UpperCase) \cup SeqSet(LowerCase) \cup Digits \cup {"_"}

\* the word w stands at t[i], in any case
wordAt(t, i, w) ==
    /\ i + Len(w) - 1 <= Len(t)
    /\ toLowerCase(SubSeq(t, i, i + Len(w) - 1)) = w

\* \b after a word that ends at t[i - 1]
boundaryAt(t, i) == ~At(t, i, WordChars)

\* length of the run of whitespace that starts at t[i]
RECURSIVE SpaceRun(_, _)
SpaceRun(t, i) == IF At(t, i, Whitespace) THEN 1 + SpaceRun(t, i + 1) ELSE 0

\* trimmed.split(/\s+/).length: one more than the runs of whitespace
wordCount(trimmed) ==
    1 + Cardinality({i \in 1 .. Len(trimmed) :
                        /\ trimmed[i] \in Whitespace
                        /\ (i = 1 \/ trimmed[i - 1] \notin Whitespace)})

QuestionWords ==
    {<<"w", "h", "a", "t">>, <<"h", "o", "w">>, <<"w", "h", "y">>,
     <<"w", "h", "e", "n">>, <<"w", "h", "e", "r", "e">>, <<"w", "h", "o">>,
     <<"w", "h", "i", "c", "h">>, <<"i", "s">>, <<"a", "r", "e">>,
     <<"d", "o", "e", "s">>, <<"d", "o">>, <<"c", "a", "n">>,
     <<"s", "h", "o", "u", "l", "d">>, <<"w", "i", "l", "l">>, <<"w", "o", "u", "l", "d">>}

\* /^(what|how|...|would)\b/i.test(trimmed)
isQuestion(trimmed) ==
    \E w \in QuestionWords : wordAt(trimmed, 1, w) /\ boundaryAt(trimmed, Len(w) + 1)

DomainTerms ==
    {<<"q", "u", "r", "a", "n">>, <<"i", "s", "l", "a", "m">>, <<"a", "l", "l", "a", "h">>,
     <<"m", "u", "s", "l", "i", "m">>, <<"a", "y", "a", "h">>, <<"s", "u", "r", "a", "h">>,
     <<"v", "e", "r", "s", "e">>}

\* /quran|islam|allah|muslim|ayah|surah|verse/i.test(trimmed)
hasQuranMention(trimmed) ==
    \E w \in DomainTerms : \E i \in 1 .. Len(trimmed) : wordAt(trimmed, i, w)

TopicWords ==
    {<<"c", "o", "n", "c", "e", "p", "t">>, <<"m", "e", "a", "n", "i", "n", "g">>, <<"i", "m", "p", "o", "r", "t", "a", "n", "c", "e">>,
     <<"r", "o", "l", "e">>, <<"p", "u", "r", "p", "o", "s", "e">>, <<"r", "u", "l", "i", "n", "g">>,
     <<"v", "i", "e", "w">>, <<"s", "t", "a", "n", "c", "e">>, <<"p", "o", "s", "i", "t", "i", "o", "n">>,
     <<"t", "o", "p", "i", "c">>}

\* (concept|...|topic)\s+of\b at t[i]
topicOfAt(t, i) ==
    \E w \in TopicWords :
        LET j == i + Len(w)
            k == j + SpaceRun(t, j)
        IN  /\ wordAt(t, i, w)
            /\ SpaceRun(t, j) >= 1
            /\ wordAt(t, k, <<"o", "f">>)
            /\ boundaryAt(t, k + 2)

\* /^(the\s+)?(concept|...|topic)\s+of\b/i.test(trimmed)
topicPattern(trimmed) ==
    \/ topicOfAt(trimmed, 1)
    \/ /\ wordAt(trimmed, 1, <<"t", "h", "e">>)
       /\ SpaceRun(trimmed, 4) >= 1
       /\ topicOfAt(trimmed, 4 + SpaceRun(trimmed, 4))

ExpansionPrefix == <<"W", "h", "a", "t", " ", "d", "o", "e", "s", " ", "t", "h", "e", " ", "Q", "u", "r", "a", "n", " ", "s", "a", "y", " ", "a", "b", "o", "u", "t", " ">>

\* `What does the Quran say about ${trimmed.toLowerCase()}?`
expansionOf(trimmed) == ExpansionPrefix \o toLowerCase(trimmed) \o <<"?">>

MaxShortWords == 3
MaxTopicWords == 6

expandShortQuery(q) ==
    LET trimmed      == trim(q)
        includesMark == \E i \in 1 .. Len(trimmed) : trimmed[i] = "?"
        looksLikeTopic == topicPattern(trimmed) = FALSE
    IN  IF wordCount(trimmed) <= MaxShortWords /\ ~isQuestion(trimmed)
           /\ ~hasQuranMention(trimmed)
        THEN expansionOf(trimmed)
        ELSE IF /\ wordCount(trimmed) <= MaxTopicWords /\ ~isQuestion(trimmed)
                /\ ~includesMark
                /\ looksLikeTopic /\ ~hasQuranMention(trimmed)
        THEN expansionOf(trimmed)
        ELSE trimmed

\* queries of the model: a start, fill words, a question mark or none, and
\* white space around it or none
MaxFill == 6      \* fill words after the start of a query at most

QueryStarts ==
    {<<"m", "u", "s", "i", "c">>,
     <<"M", "u", "s", "i", "c">>,
     <<"w", "h", "a", "t">>,
     <<"w", "h", "a", "t", "e", "v", "e", "r">>,
     <<"I", "s">>,
     <<"r", "o", "l", "e", " ", "o", "f">>,
     <<"t", "h", "e", " ", "r", "o", "l", "e", " ", "o", "f">>,
     <<"t", "h", "e", " ", "r", "o", "l", "e">>,
     <<"v", "e", "r", "s", "e", "s">>,
     <<"m", "y", " ", "I", "S", "L", "A", "M">>}

RECURSIVE Fill(_)
Fill(n) == IF n = 0 THEN <<>> ELSE <<" ", "m", "e", "n">> \o Fill(n - 1)

Queries ==
    {pad[1] \o st \o Fill(n) \o tl \o pad[2] :
        pad \in {<<<<>>, <<>>>>, <<<<" ">>, <<" ", "\n">>>>},
        st \in QueryStarts, n \in 0 .. MaxFill, tl \in {<<>>, <<"?">>}}

InitQuery ==
    /\ query \in Queries
    /\ qpc = "input"
    /\ expanded = <<>>
    /\ context = <<>>
    /\ StreamIdle /\ GenIdle /\ ParseIdle /\ CiteIdle /\ RouteIdle /\ RetrieveIdle

\* expandShortQuery(query)
ExpandShortQuery ==
    /\ qpc = "input"
    /\ expanded' = expandShortQuery(query)
    /\ qpc' = "returned"
    /\ UNCHANGED query

\* expandShortQuery of what expandShortQuery returned
ExpandShortQueryAgain ==
    /\ qpc = "returned"
    /\ query' = expanded
    /\ expanded' = expandShortQuery(expanded)
    /\ qpc' = "again"

NextQuery ==
    \/ ExpandShortQuery /\ UNCHANGED <<context, streamVars, genVars, parseVars, citeVars, routeVars, retrieveVars>>
    \/ ExpandShortQueryAgain /\ UNCHANGED <<context, streamVars, genVars, parseVars, citeVars, routeVars, retrieveVars>>

SpecQuery == InitQuery /\ [][NextQuery]_vars

(***************************************************************************)
(* Properties of the query preprocessor.                                   *)
(***************************************************************************)
\* the condition of the claim: at most 6 words, no WH-word or auxiliary at
\* the start, none of the domain terms
Rewritable(q) ==
    /\ wordCount(trim(q)) <= MaxTopicWords
    /\ ~isQuestion(trim(q))
    /\ ~hasQuranMention(trim(q))

\* C17 (as claimed): expandShortQuery returns "What does the Quran say about
\* {query}?", with the trimmed query as written, exactly when the trimmed
\* query has at most 6 words, does not start with a WH-word or auxiliary and
\* mentions no domain term; in every other case it returns the (trimmed)
\* query; and expandShortQuery of a result is that result.
C17_ExpandShortQuery ==
    /\ (qpc = "returned") =>
          expanded = IF Rewritable(query)
                     THEN ExpansionPrefix \o trim(query) \o <<"?">>
                     ELSE trim(query)
    /\ (qpc = "again") => expanded = query

(***************************************************************************)
(* rewriteQueryWithContext (src/src/lib/retrieval.ts) and its caller, step *)
(* 4 and 5 of POST (src/src/app/api/chat/route.ts).  An action is the code *)
(* from one await to the next; the await of the rewrite is its LLM call.   *)
(***************************************************************************)
RewriteMaxQueryLength == 100
MinRewrittenLength == 5

\* the try block threw: getOpenAIClient or client.responses.create
Threw == [t |-> "threw"]

\* the caller goes on with the value rewriteQueryWithContext returned: POST
\* calls retrievePairedContext with it
rewriteReturns(caller, result) ==
    /\ rwResult' = result
    /\ IF caller = "route"
       THEN /\ retrievalQuery' = result
            /\ retrievalCalls' = retrievalCalls + 1
            /\ rpc' = "retrieving"
       ELSE /\ rpc' = "returned"
            /\ UNCHANGED retrievalVars

\* rewriteQueryWithContext up to its first await: the skip, the throw of
\* getOpenAIClient without a key (caught), or the LLM call
enterRewrite(caller, q, history, keyPresent) ==
    /\ rwQuery' = q /\ rwHistory' = history /\ rwCaller' = caller
    /\ IF Len(history) = 0 \/ Len(q) > RewriteMaxQueryLength
       THEN /\ rewriteReturns(caller, q)
            /\ rwOutput' = NoOutput
            /\ UNCHANGED rewriteCalls
       ELSE IF ~keyPresent
       THEN /\ rewriteReturns(caller, q)
            /\ rwOutput' = Threw
            /\ UNCHANGED rewriteCalls
       ELSE /\ rewriteCalls' = rewriteCalls + 1
            /\ rpc' = "rewriting"
            /\ rwOutput' = NoOutput /\ rwResult' = <<>>
            /\ UNCHANGED retrievalVars

\* lines 152-162: output is response.output_text, Absent for undefined
rewriteResult_NoFallback(q, output) ==
    IF output.t # "str" THEN q ELSE trim(output.s)
rewriteResult(q, output) ==
    LET rewritten == IF output.t = "str" THEN trim(output.s) ELSE <<>>
    IN  IF output.t # "str" \/ rewritten = <<>> \/ Len(rewritten) < MinRewrittenLength
        THEN q
        ELSE rewritten

\* the LLM call resolves
RewriteResolves(output) ==
    /\ rpc = "rewriting"
    /\ rwOutput' = output
    /\ rewriteReturns(rwCaller, rewriteResult(rwQuery, output))
    /\ UNCHANGED <<rwQuery, rwHistory, rwCaller, rewriteCalls, limiterVars, requestData>>

\* the LLM call rejects: the catch block returns the query
RewriteRejects ==
    /\ rpc = "rewriting"
    /\ rwOutput' = Threw
    /\ rewriteReturns(rwCaller, rwQuery)
    /\ UNCHANGED <<rwQuery, rwHistory, rwCaller, rewriteCalls, limiterVars, requestData>>

\* rewriteQueryWithContext(rwQuery, rwHistory) called on its own
CallRewriteQueryWithContext(keyPresent) ==
    /\ rpc = "call"
    /\ enterRewrite("direct", rwQuery, rwHistory, keyPresent)
    /\ UNCHANGED <<limiterVars, requestData>>

(***************************************************************************)
(* The chat route: checkRateLimit, validateRequest and POST up to the      *)
(* result of retrievePairedContext.  The requests are followed one at a    *)
(* time: checkRateLimit runs in the synchronous start of POST, so the      *)
(* requests that are under way at the same time do not change what it      *)
(* does for the request at hand.                                           *)
(***************************************************************************)
windowMs == 60000
maxRequests == 10
MinMessageLength == 3
MaxMessageLength == 1000
MaxHistory == 10
MaxContentLength == 2000

MaxTicks == 2     \* steps of the clock at most

\* x-forwarded-for || x-real-ip || "anonymous"
clientIp(xff, xri) ==
    IF xff # "" THEN xff ELSE IF xri # "" THEN xri ELSE "anonymous"

\* the record a window opens with
FreshRecord(t) == [present |-> TRUE, count |-> 1, resetTime |-> t + windowMs]

checkRateLimit_OffByOne(counts, ip, t) ==
    LET record == counts[ip]
    IN  IF ~record.present \/ t > record.resetTime
        THEN [allowed |-> TRUE, counts |-> [counts EXCEPT ![ip] = FreshRecord(t)]]
        ELSE IF record.count > maxRequests
        THEN [allowed |-> FALSE, counts |-> counts]
        ELSE [allowed |-> TRUE,
              counts |-> [counts EXCEPT ![ip].count = @ + 1]]

checkRateLimit_ExtendOnReject(counts, ip, t) ==
    LET record == counts[ip]
    IN  IF ~record.present \/ t > record.resetTime
        THEN [allowed |-> TRUE, counts |-> [counts EXCEPT ![ip] = FreshRecord(t)]]
        ELSE IF record.count >= maxRequests
        THEN [allowed |-> FALSE,
              counts |-> [counts EXCEPT ![ip].resetTime = t + windowMs]]
        ELSE [allowed |-> TRUE,
              counts |-> [counts EXCEPT ![ip].count = @ + 1]]

\* checkRateLimit(ip) at the time t: the value returned and the Map after it
checkRateLimit(counts, ip, t) ==
    LET record == counts[ip]
    IN  IF ~record.present \/ t > record.resetTime
        THEN [allowed |-> TRUE,
              counts |-> [counts EXCEPT ![ip] =
                            [present |-> TRUE, count |-> 1,
                             resetTime |-> t + windowMs]]]
        ELSE IF record.count >= maxRequests
        THEN [allowed |-> FALSE, counts |-> counts]
        ELSE [allowed |-> TRUE,
              counts |-> [counts EXCEPT ![ip].count = @ + 1]]

\* the body of a request: an object with the fields message and history
\* (Absent when left out); an entry of a history array is an object with
\* role and content, or any other value
Body(message, history) == [t |-> "body", message |-> message, history |-> history]
Msg(role, msgContent) == [t |-> "msg", role |-> role, content |-> msgContent]

User == <<"u", "s", "e", "r">>
Assistant == <<"a", "s", "s", "i", "s", "t", "a", "n", "t">>
System == <<"s", "y", "s", "t", "e", "m">>

\* Boolean(v) of JavaScript
truthy(v) ==
    CASE v.t \in {"absent", "null"} -> FALSE
      [] v.t = "str" -> v.s # <<>>
      [] v.t = "num" -> v.n # 0
      [] OTHER -> TRUE

\* slice(-n) and slice(0, n)
lastN(q, n) == SubSeq(q, IF Len(q) > n THEN Len(q) - n + 1 ELSE 1, Len(q))
firstN(q, n) == SubSeq(q, 1, Min(Len(q), n))

\* the filter of validateRequest
validEntry(msg) ==
    /\ msg.t = "msg"
    /\ msg.role.t = "str" /\ msg.role.s \in {User, Assistant}
    /\ msg.content.t = "str"

\* lines 71-83
sanitizeHistory(history) ==
    LET kept == SelectSeq(lastN(history, MaxHistory), validEntry)
    IN  [j \in 1 .. Len(kept) |->
            [role |-> kept[j].role.s,
             content |-> firstN(kept[j].content.s, MaxContentLength)]]

Invalid == [valid |-> FALSE, data |-> NoData]

validateRequest(body) ==
    IF body.t # "body" THEN Invalid
    ELSE IF ~truthy(body.message) \/ body.message.t # "str" THEN Invalid
    ELSE IF Len(body.message.s) < MinMessageLength THEN Invalid
    ELSE IF Len(body.message.s) > MaxMessageLength THEN Invalid
    ELSE IF truthy(body.history) /\ body.history.t # "arr" THEN Invalid
    ELSE [valid |-> TRUE,
          data |-> [message |-> trim(body.message.s),
                    history |-> IF truthy(body.history)
                                THEN sanitizeHistory(body.history.a)
                                ELSE <<>>]]

\* the clock
Tick(step) ==
    /\ ticks < MaxTicks
    /\ now' = now + step
    /\ ticks' = ticks + 1
    /\ UNCHANGED <<requestCounts, requestVars, rewriteVars, retrievalVars>>

\* where POST goes after checkRateLimit
afterRateLimit_Ignore(allowed) == "body"
afterRateLimit(allowed) == IF allowed THEN "body" ELSE "responded"

\* POST up to its first await: the ip, checkRateLimit, and either the 429
\* response or the call of request.json()
PostArrives(xff, xri) ==
    /\ rpc \in {"idle", "responded", "dispatch"}
    /\ LET ip == clientIp(xff, xri)
           r  == checkRateLimit(requestCounts, ip, now)
           to == afterRateLimit(r.allowed)
       IN  /\ requestCounts' = r.counts
           /\ reqIp' = ip
           /\ limited' = ~r.allowed
           /\ rpc' = to
           /\ bodyRead' = (to = "body")
           /\ status' = IF to = "body" THEN 0 ELSE 429
    /\ reqBody' = NoBody /\ validated' = NoData
    /\ rwQuery' = <<>> /\ rwHistory' = <<>> /\ rwOutput' = NoOutput
    /\ rwResult' = <<>> /\ rwCaller' = "none" /\ rewriteCalls' = 0
    /\ retrievalCalls' = 0 /\ retrievalQuery' = <<>>
    /\ UNCHANGED <<now, ticks>>

\* request.json() rejects: the body is no JSON
BodyRejects ==
    /\ rpc = "body"
    /\ status' = 400
    /\ rpc' = "responded"
    /\ UNCHANGED <<limiterVars, reqIp, limited, bodyRead, reqBody, validated,
                   rewriteVars, retrievalVars>>

\* request.json() resolves: validateRequest, the 400 response or steps 3 to
\* 5, up to the LLM call of the rewrite or the call of retrievePairedContext
BodyResolves(body, keyPresent) ==
    /\ rpc = "body"
    /\ reqBody' = body
    /\ LET validation == validateRequest(body)
       IN  IF ~validation.valid
           THEN /\ status' = 400
                /\ rpc' = "responded"
                /\ UNCHANGED <<validated, rewriteVars, retrievalVars>>
           ELSE /\ validated' = validation.data
                /\ UNCHANGED status
                /\ IF Len(validation.data.history) > 0
                   THEN enterRewrite("route", validation.data.message,
                                     validation.data.history, keyPresent)
                   ELSE /\ retrievalQuery' = validation.data.message
                        /\ retrievalCalls' = retrievalCalls + 1
                        /\ rpc' = "retrieving"
                        /\ UNCHANGED rewriteVars
    /\ UNCHANGED <<limiterVars, reqIp, limited, bodyRead>>

\* retrievePairedContext resolves: POST goes on with step 5 (PostDispatch)
RetrievalResolves ==
    /\ rpc = "retrieving"
    /\ rpc' = "dispatch"
    /\ UNCHANGED <<limiterVars, requestData, rewriteVars, retrievalVars>>

\* retrievePairedContext rejects: the catch block of POST answers
RetrievalRejects ==
    /\ rpc = "retrieving"
    /\ status' = 500
    /\ rpc' = "responded"
    /\ UNCHANGED <<limiterVars, reqIp, limited, bodyRead, reqBody, validated,
                   rewriteVars, retrievalVars>>

(***************************************************************************)
(* Inputs of the route and of the rewrite.                                 *)
(***************************************************************************)
Repeat(c, n) == [j \in 1 .. n |-> c]

FollowUp == <<"w", "h", "a", "t", " ", "a", "b", "o", "u", "t", " ", "m", "e", "n">>
Hi == [role |-> User, content |-> <<"h", "i">>]

\* queries of 3, 14, 100 and 101 characters
RewriteQueries ==
    {<<"m", "e", "n">>, FollowUp,
     Repeat("q", RewriteMaxQueryLength), Repeat("q", RewriteMaxQueryLength + 1)}

Histories == {<<>>, <<Hi>>, <<Hi, Hi, Hi, Hi, Hi>>}

\* response.output_text: undefined, "", blanks, 4 characters with and
\* without blanks around them, 5 characters, a question with blanks around
RewriteOutputs ==
    {Absent, Str(<<>>), Str(<<" ", " ", "\n">>), Str(<<"a", "b", "c", "d">>),
     Str(<<" ">> \o <<"a", "b", "c", "d">> \o <<" ", "\n">>), Str(<<"a", "b", "c", "d", "e">>),
     Str(<<" ">> \o <<"W", "h", "a", "t", " ", "d", "o", "e", "s", " ", "t", "h", "e", " ", "Q", "u", "r", "a", "n", " ", "s", "a", "y", " ", "a", "b", "o", "u", "t", " ", "m", "e", "n", "?">> \o <<"\n">>)}

\* a history of 12 entries: the first two are dropped by slice(-10); of the
\* other ten, one has the role system, one is null, one has a number as
\* content, one a content of 2001 characters
LongHistory ==
    <<Msg(Str(User), Str(<<"1">>)), Msg(Str(Assistant), Str(<<"2">>)),
      Msg(Str(User), Str(<<"3">>)), Msg(Str(System), Str(<<"4">>)),
      Null, Msg(Str(Assistant), Num(6)),
      Msg(Str(User), Str(Repeat("c", MaxContentLength + 1))),
      Msg(Str(Assistant), Str(<<"8">>)), Msg(Str(User), Str(<<"9">>)),
      Msg(Str(Assistant), Str(<<"1", "0">>)), Msg(Str(User), Str(<<"1", "1">>)),
      Msg(Str(Assistant), Str(<<"1", "2">>))>>

\* what request.json() resolves with
Bodies ==
    {Null, Num(5), Arr(<<>>),
     Body(Absent, Absent), Body(Num(5), Absent), Body(Str(<<>>), Absent),
     Body(Str(<<"a", "b">>), Absent),
     Body(Str(<<"a", "b", "c">>), Absent),
     Body(Str(<<" ", "a", " ">>), Absent),
     Body(Str(<<" ", " ", " ">>), Absent),
     Body(Str(Repeat("m", MaxMessageLength)), Absent),
     Body(Str(Repeat("m", MaxMessageLength + 1)), Absent),
     Body(Str(<<"a", "b", "c">>), Str(<<"x">>)),
     Body(Str(<<"a", "b", "c">>), Null),
     Body(Str(<<"a", "b", "c">>), Arr(<<>>)),
     Body(Str(FollowUp), Arr(<<Msg(Str(User), Str(<<"h", "i">>))>>)),
     Body(Str(FollowUp), Arr(LongHistory)),
     Body(Str(Repeat("m", RewriteMaxQueryLength + 1)),
          Arr(<<Msg(Str(User), Str(<<"h", "i">>))>>))}

nonRouteVars == <<context, streamVars, genVars, parseVars, citeVars, queryVars,
                  retrieveVars>>

NonRouteIdle ==
    /\ context = <<>>
    /\ StreamIdle /\ GenIdle /\ ParseIdle /\ CiteIdle /\ QueryIdle
    /\ RetrieveIdle

(***************************************************************************)
(* One request on a freshly loaded route, or one call of                   *)
(* rewriteQueryWithContext on its own.                                     *)
(***************************************************************************)
InitRequest ==
    /\ LimiterFresh /\ RequestIdle /\ RetrievalIdle
    /\ \/ rpc = "idle" /\ RewriteIdle
       \/ /\ rpc = "call"
          /\ rwQuery \in RewriteQueries /\ rwHistory \in Histories
          /\ rwCaller = "direct" /\ rwOutput = NoOutput /\ rwResult = <<>>
          /\ rewriteCalls = 0
    /\ NonRouteIdle

NextRequest ==
    \/ /\ rpc = "idle"
       /\ \E xff, xri \in HeaderValues : PostArrives(xff, xri)
       /\ UNCHANGED nonRouteVars
    \/ BodyRejects /\ UNCHANGED nonRouteVars
    \/ \E b \in Bodies, k \in BOOLEAN : BodyResolves(b, k) /\ UNCHANGED nonRouteVars
    \/ \E k \in BOOLEAN : CallRewriteQueryWithContext(k) /\ UNCHANGED nonRouteVars
    \/ \E o \in RewriteOutputs : RewriteResolves(o) /\ UNCHANGED nonRouteVars
    \/ RewriteRejects /\ UNCHANGED nonRouteVars
    \/ RetrievalResolves /\ UNCHANGED nonRouteVars
    \/ RetrievalRejects /\ UNCHANGED nonRouteVars

SpecRequest == InitRequest /\ [][NextRequest]_vars

(***************************************************************************)
(* Requests over time: the clock moves and one request follows another.    *)
(***************************************************************************)
RouteBodies ==
    {Null, Body(Str(<<"a", "b", "c">>), Absent),
     Body(Str(FollowUp), Arr(<<Msg(Str(User), Str(<<"h", "i">>))>>))}

RouteOutputs == {Str(<<"W", "h", "a", "t", " ", "d", "o", "e", "s", " ", "t", "h", "e", " ", "Q", "u", "r", "a", "n", " ", "s", "a", "y", " ", "a", "b", "o", "u", "t", " ", "m", "e", "n", "?">>)}

InitRoute ==
    /\ LimiterFresh
    /\ rpc = "idle" /\ RequestIdle /\ RewriteIdle /\ RetrievalIdle
    /\ NonRouteIdle

NextRoute ==
    \/ \E step \in {1, windowMs} : Tick(step) /\ UNCHANGED nonRouteVars
    \/ \E xff, xri \in HeaderValues : PostArrives(xff, xri) /\ UNCHANGED nonRouteVars
    \/ BodyRejects /\ UNCHANGED nonRouteVars
    \/ \E b \in RouteBodies, k \in BOOLEAN : BodyResolves(b, k) /\ UNCHANGED nonRouteVars
    \/ \E o \in RouteOutputs : RewriteResolves(o) /\ UNCHANGED nonRouteVars
    \/ RewriteRejects /\ UNCHANGED nonRouteVars
    \/ RetrievalResolves /\ UNCHANGED nonRouteVars
    \/ RetrievalRejects /\ UNCHANGED nonRouteVars

SpecRoute == InitRoute /\ [][NextRoute]_vars

(***************************************************************************)
(* Properties of the rewrite and of the route.                             *)
(***************************************************************************)
RewriteSkips == Len(rwHistory) = 0 \/ Len(rwQuery) > RewriteMaxQueryLength

RewriteReturned == rwCaller # "none" /\ rpc \notin {"call", "rewriting"}

UsableOutput(output) ==
    output.t = "str" /\ Len(trim(output.s)) >= MinRewrittenLength

\* C18: rewriteQueryWithContext never fails.  With an empty history or a
\* query of more than 100 characters it returns the query and the LLM is
\* not called; when the client or the LLM call throws, or the output is
\* undefined, empty or shorter than 5 characters once trimmed, it returns
\* the query; it returns the trimmed output in the one remaining case; and
\* POST calls retrievePairedContext with the value returned in every case,
\* so that a 500 response never comes from the rewrite.
C18_RewriteNeverFails ==
    /\ (rpc = "rewriting") => (~RewriteSkips /\ rewriteCalls = 1)
    /\ RewriteReturned =>
          /\ RewriteSkips =>
                (rwResult = rwQuery /\ rewriteCalls = 0 /\ rwOutput = NoOutput)
          /\ (rwOutput = Threw) => rwResult = rwQuery
          /\ (rwOutput.t \in {"absent", "str"} /\ ~UsableOutput(rwOutput)) =>
                rwResult = rwQuery
          /\ UsableOutput(rwOutput) =>
                (rwResult = trim(rwOutput.s) /\ rewriteCalls = 1)
          /\ (rwResult # rwQuery) => UsableOutput(rwOutput)
          /\ (rwCaller = "route") =>
                /\ retrievalCalls = 1
                /\ retrievalQuery = rwResult
                /\ rwQuery = validated.message
                /\ rpc \in {"retrieving", "dispatch"} \/ status = 500
    /\ (status = 500) => retrievalCalls = 1

\* the client could not be built for a request with a history: the route
\* retrieves with the message itself
C18_Witness ==
    /\ rwCaller = "route" /\ rwOutput = Threw /\ rewriteCalls = 0
    /\ ~RewriteSkips
    /\ rpc = "retrieving" /\ retrievalCalls = 1 /\ retrievalQuery = rwQuery

ArrivalStates == {"idle", "responded", "dispatch"}

\* the record of the ip has used up the window that is still open
OverLimit(counts, ip, t) ==
    /\ counts[ip].present
    /\ t <= counts[ip].resetTime
    /\ counts[ip].count >= maxRequests

\* C19: a request is rate limited exactly when the window of its ip is open
\* and holds 10 requests already; it is then answered with status 429, a
\* status no other response has, and request.json(), the rewrite and
\* retrievePairedContext (which holds the embedding, the vector search and
\* the row store, and precedes the completion) are not called for it.
C19_RateLimitedFirst ==
    /\ [](/\ limited =>
               /\ rpc = "responded" /\ status = 429
               /\ ~bodyRead /\ reqBody = NoBody /\ validated = NoData
               /\ rewriteCalls = 0 /\ retrievalCalls = 0
               /\ rwCaller = "none"
               /\ requestCounts[reqIp].count = maxRequests
          /\ (status = 429) => limited
          /\ (status \in {400, 500}) => (bodyRead /\ ~limited)
          /\ (status = 500) => retrievalCalls = 1
          /\ (rewriteCalls > 0 \/ retrievalCalls > 0) => (bodyRead /\ ~limited))
    /\ [][(rpc \in ArrivalStates /\ ticks' = ticks) =>
             (limited' = OverLimit(requestCounts, reqIp', now))]_vars

\* the eleventh request of an ip in one window
C19_Witness ==
    /\ limited /\ status = 429 /\ rpc = "responded"
    /\ requestCounts[reqIp].count = maxRequests
    /\ now <= requestCounts[reqIp].resetTime

\* the request went on to step 4 or 5 of POST
PassedOn ==
    /\ rwCaller # "direct"
    /\ (rpc = "rewriting" \/ retrievalCalls > 0)

GoodMessage(body) ==
    /\ body.t = "body" /\ body.message.t = "str"
    /\ Len(body.message.s) >= MinMessageLength
    /\ Len(body.message.s) <= MaxMessageLength

HistoryShape(history) ==
    /\ Len(history) <= MaxHistory
    /\ \A j \in 1 .. Len(history) :
          /\ history[j].role \in {User, Assistant}
          /\ Len(history[j].content) <= MaxContentLength

\* C20: a request that goes on to the rewrite or to the retrieval has a
\* message of 3 to 1000 characters and a history of at most 10 entries, each
\* of the role user or assistant and with at most 2000 characters; a
\* request whose body holds any other message is answered with 400 and
\* neither the rewrite nor the retrieval is called.
C20_RequestShape ==
    /\ PassedOn =>
          /\ Len(validated.message) >= MinMessageLength
          /\ Len(validated.message) <= MaxMessageLength
          /\ HistoryShape(validated.history)
    /\ (reqBody # NoBody /\ ~GoodMessage(reqBody)) =>
          (status = 400 /\ rewriteCalls = 0 /\ retrievalCalls = 0)

(***************************************************************************)
(* Properties of the rate limiter.                                         *)
(***************************************************************************)
\* a step of SpecRoute in which a request arrives: from the states in which
\* no request is under way only the clock and an arrival can take a step
Arrival == rpc \in ArrivalStates /\ ticks' = ticks

WindowOver(record, t) == ~record.present \/ t > record.resetTime

\* C26: the limiter is a fixed window of 60 seconds with at most 10
\* requests admitted per ip.  The count of a record is 1 to 10 and counts
\* the requests admitted in the window; a request of an ip with no record
\* or with an expired window is admitted and opens a window that ends 60000
\* ms later with the count 1; in an open window a request is admitted, and
\* counted, exactly when fewer than 10 were admitted before it.
C26_FixedWindow ==
    /\ [](\A ip \in IPs :
             requestCounts[ip].present =>
                /\ requestCounts[ip].count >= 1
                /\ requestCounts[ip].count <= maxRequests
                /\ requestCounts[ip].resetTime <= now + windowMs)
    /\ [][Arrival =>
             LET old == requestCounts[reqIp']
                 new == requestCounts'[reqIp']
             IN  IF WindowOver(old, now)
                 THEN ~limited' /\ new = FreshRecord(now)
                 ELSE IF old.count < maxRequests
                 THEN /\ ~limited'
                      /\ new = [old EXCEPT !.count = old.count + 1]
                 ELSE limited' /\ new = old]_vars

\* the tenth request of a window that opened after the clock had moved
C26_Witness ==
    /\ rpc = "body" /\ ~limited
    /\ requestCounts[reqIp].count = maxRequests
    /\ requestCounts[reqIp].resetTime > windowMs
    /\ now > 0

\* C30: a rejected request leaves the Map as it was; an admitted request
\* changes the record of its own ip only; no other step changes the Map; a
\* record that is in the Map stays in it, and its resetTime changes only
\* when a request of its ip arrives after the window expired.
C30_LimiterFrame ==
    [][/\ (Arrival /\ limited') => requestCounts' = requestCounts
       /\ Arrival =>
             \A ip \in IPs \ {reqIp'} : requestCounts'[ip] = requestCounts[ip]
       /\ ~Arrival => requestCounts' = requestCounts
       /\ \A ip \in IPs :
             /\ requestCounts[ip].present => requestCounts'[ip].present
             /\ (/\ requestCounts[ip].present
                 /\ requestCounts'[ip].resetTime # requestCounts[ip].resetTime) =>
                   (/\ Arrival /\ reqIp' = ip /\ ~limited'
                    /\ now > requestCounts[ip].resetTime
                    /\ requestCounts'[ip] = FreshRecord(now))]_vars

\* a request is rejected while the other ip has a record of its own
C30_Witness ==
    /\ limited /\ rpc = "responded"
    /\ requestCounts[reqIp].count = maxRequests
    /\ \E ip \in IPs \ {reqIp} :
          requestCounts[ip].present /\ requestCounts[ip].count < maxRequests

(***************************************************************************)
(* Uncertainty across the two passes of generateVerifiedAnswer.            *)
(***************************************************************************)
\* C25: an uncertainty set by the generation pass is never cleared: when
\* generateVerifiedAnswer returns and the draft had a non-null uncertainty,
\* the response has a non-null uncertainty, whether the draft was returned
\* or the verification pass gave the final answer.
C25_UncertaintyKept ==
    (gpc = "returned" /\ draftAnswer # NoAnswer /\ draftAnswer.uncertainty # Null) =>
        response.uncertainty # Null

(***************************************************************************)
(* retrievePairedContext (src/src/lib/retrieval.ts) with the reranking     *)
(* switched off, as CONFIG.enableReranking has it, and the collaborators   *)
(* it calls: the embedding call, the match_documents RPC and the lookups   *)
(* of the row store.  A similarity is written in hundredths.  The field    *)
(* ref of a row, the text "(surah:ayah)", is left out: it is a function of *)
(* surah and ayah.                                                         *)
(***************************************************************************)
ExpandRadius == 2      \* offset = -2 .. 2
FullWeight == 100      \* similarity: 1.0

Undefined == Absent

\* the documents table of the model: English rows of surah 2, ayahs 1 to 7,
\* and of surah 3, ayahs 1 to 3; the Arabic row of (2:4) is missing
EnglishKeys == {<<2, a>> : a \in 1 .. 7} \cup {<<3, a>> : a \in 1 .. 3}
ArabicKeys == EnglishKeys \ {<<2, 4>>}

contentOf(lang, k) ==
    <<lang>> \o NumberToString(k[1]) \o <<":">> \o NumberToString(k[2])

\* a row of match_documents
Hit(s, a, sim) ==
    [surah |-> s, ayah |-> a, content |-> contentOf("en ", <<s, a>>),
     similarity |-> sim]

\* what the RPC gives as data: null, no row, or rows of distinct verses
\* sorted by similarity
SearchData ==
    {<<>>,
     <<Hit(2, 1, 90)>>,
     <<Hit(2, 5, 80), Hit(2, 3, 60)>>,
     <<Hit(3, 2, 70), Hit(2, 2, 50)>>,
     <<Hit(2, 7, 40)>>,
     <<Hit(2, 6, 55), Hit(2, 5, 45)>>,
     <<Hit(2, 2, 85), Hit(2, 3, 75), Hit(3, 1, 35)>>}

\* the verse_context table, one of: no rows, a row with summary and theme
\* for every verse, a row with an empty summary and a null theme
ContextTables == {"none", "full", "blank"}

\* what a call of the row store or of the RPC resolves with
Ok == [t |-> "ok"]
Failure(m) == [t |-> "error", message |-> m]
DbErrors == {Failure(<<"timeout">>)}
Outcomes == {Ok} \cup DbErrors

KeysOf(refs) == {RefKey(refs[j]) : j \in 1 .. Len(refs)}

\* Map.get
mapGet(m, k) == IF k \in DOMAIN m THEN m[k] ELSE Undefined

\* x || y of JavaScript
orElse(x, y) == IF truthy(x) THEN x ELSE y

\* fetchArabicVerses, lines 225-230: the Map of the rows found
arabicMapOf(refs) ==
    [k \in KeysOf(refs) \cap ArabicKeys |-> Str(contentOf("ar ", k))]

\* the rows the verse_context lookup finds
contextRow(table, k) ==
    IF table = "full"
    THEN [context_summary |-> Str(<<"summary">>), theme |-> Str(<<"theme">>)]
    ELSE [context_summary |-> Str(<<>>), theme |-> Null]

\* fetchVerseContexts, lines 259-267
contextMapOf(refs, table) ==
    [k \in (IF table = "none" THEN {} ELSE KeysOf(refs)) |->
        [context_summary |-> orElse(contextRow(table, k).context_summary, Str(<<>>)),
         theme |-> orElse(contextRow(table, k).theme, Null)]]

\* lines 393 and 399-412
refsOf(results) == [j \in 1 .. Len(results) |-> Ref(results[j].surah, results[j].ayah)]

buildAnchors(results, arabicMap, contextMap) ==
    [j \in 1 .. Len(results) |->
        LET key == <<results[j].surah, results[j].ayah>>
            ctx == mapGet(contextMap, key)
        IN  [surah |-> results[j].surah,
             ayah |-> results[j].ayah,
             arabic |-> orElse(mapGet(arabicMap, key), Str(<<>>)),
             english |-> Str(results[j].content),
             similarity |-> results[j].similarity,
             context_summary |->
                 IF key \notin DOMAIN contextMap THEN Undefined
                 ELSE orElse(ctx.context_summary, Undefined),
             theme |->
                 IF key \notin DOMAIN contextMap THEN Undefined
                 ELSE orElse(ctx.theme, Undefined)]]

\* lines 328-333: the references around one anchor
refsAround_NoClamp(anchor) ==
    [j \in 1 .. (2 * ExpandRadius + 1) |->
        Ref(anchor.surah, anchor.ayah + j - ExpandRadius - 1)]
refsAround(anchor) ==
    SelectSeq([j \in 1 .. (2 * ExpandRadius + 1) |->
                  Ref(anchor.surah, anchor.ayah + j - ExpandRadius - 1)],
              LAMBDA r : r.ayah > 0)

\* lines 326-337
RECURSIVE refsToFetch(_)
refsToFetch(as) ==
    IF as = <<>> THEN <<>> ELSE refsAround(Head(as)) \o refsToFetch(Tail(as))

\* the keys of a set in the order of surah, then ayah
RECURSIVE sortKeys(_)
sortKeys(S) ==
    IF S = {} THEN <<>>
    ELSE LET least == CHOOSE k \in S :
                         \A o \in S : k[1] < o[1] \/ (k[1] = o[1] /\ k[2] <= o[2])
         IN  <<least>> \o sortKeys(S \ {least})

\* lines 344-351: the rows of the English lookup
englishRowsOf(refs) ==
    LET keys == sortKeys(KeysOf(refs) \cap EnglishKeys)
    IN  [j \in 1 .. Len(keys) |->
            [surah |-> keys[j][1], ayah |-> keys[j][2],
             content |-> contentOf("en ", keys[j])]]

\* lines 356-371: enData is null when the lookup failed
expandedRows(data, arabicMap) ==
    LET rows == IF data = Null THEN <<>> ELSE data.a
        first(j) == \A i \in 1 .. (j - 1) :
                       <<rows[i].surah, rows[i].ayah>> # <<rows[j].surah, rows[j].ayah>>
        kept == SelectSeq([j \in 1 .. Len(rows) |-> [at |-> j, row |-> rows[j]]],
                          LAMBDA e : first(e.at))
    IN  [j \in 1 .. Len(kept) |->
            LET row == kept[j].row
            IN  [surah |-> row.surah,
                 ayah |-> row.ayah,
                 arabic |-> orElse(mapGet(arabicMap, <<row.surah, row.ayah>>), Str(<<>>)),
                 english |-> Str(row.content),
                 similarity |-> FullWeight,
                 context_summary |-> Undefined,
                 theme |-> Undefined]]

\* messages of the Errors thrown; a message is cut where the catch block
\* of POST looks for a part of it
MissingOpenAI == MissingKey.message
MissingSupabase ==
    <<"Missing ", "SUPABASE", "_URL or ", "SUPABASE", "_SERVICE_ROLE_KEY">>
SearchFailed(e) == <<"Failed to search verses: ">> \o e.message
ArabicFailed(e) == <<"Failed to fetch Arabic verses: ">> \o e.message
EmbeddingErrors == {<<"Connection error.">>, <<"401 Incorrect API key provided">>}

\* String.prototype.includes on a message
includes(message, part) == IsInfix(part, message)

\* the responses of POST once the retrieval has ended
ServiceConfigurationError == "Service configuration error"
DatabaseConnectionError == "Database connection error"
GenericError == "Failed to process your question. Please try again."
NoVersesAnswer == "I could not find relevant Quran verses to answer your question."
ToGeneration == "step 6"

\* route.ts, lines 194-217: the catch block of POST
errorResponse(message) ==
    [status |-> 500,
     body |-> IF includes(message, <<"OPENAI_API_KEY">>) THEN ServiceConfigurationError
              ELSE IF includes(message, <<"SUPABASE">>) THEN DatabaseConnectionError
              ELSE GenericError]

\* an Error leaves retrievePairedContext
throws(message) ==
    /\ tpc' = "threw"
    /\ thrown' = message

\* fetchVerseContexts, lines 248-267: what it does with the outcome of its
\* lookup
fetchVerseContexts_Fatal(refs, outcome, table) ==
    [failed |-> outcome # Ok,
     map |-> IF outcome = Ok THEN contextMapOf(refs, table) ELSE <<>>]
fetchVerseContexts(refs, outcome, table) ==
    [failed |-> FALSE,
     map |-> IF outcome = Ok THEN contextMapOf(refs, table) ELSE <<>>]

\* retrievePairedContext is called: generateQueryEmbedding builds the
\* client, which throws without a key, and issues the embedding call
CallRetrievePairedContext(keyPresent) ==
    /\ tpc = "start"
    /\ IF keyPresent
       THEN tpc' = "embedding" /\ UNCHANGED thrown
       ELSE throws(MissingOpenAI)
    /\ UNCHANGED <<englishResults, anchors, uniqueRefs, enData, retrieved,
                   failedCalls, reply>>

\* the embedding call resolves: searchSimilarVerses builds the client of
\* the row store, which throws without url or key, and issues the RPC
EmbeddingResolves(credentialsPresent) ==
    /\ tpc = "embedding"
    /\ IF credentialsPresent
       THEN tpc' = "searching" /\ UNCHANGED thrown
       ELSE throws(MissingSupabase)
    /\ UNCHANGED <<englishResults, anchors, uniqueRefs, enData, retrieved,
                   failedCalls, reply>>

EmbeddingRejects(message) ==
    /\ tpc = "embedding"
    /\ throws(message)
    /\ failedCalls' = failedCalls \cup {"embedding"}
    /\ UNCHANGED <<englishResults, anchors, uniqueRefs, enData, retrieved, reply>>

\* the RPC resolves with rows (data || []; <<>> stands for null as well):
\* return [] or issue the Arabic and the verse_context lookup
SearchResolves(data) ==
    /\ tpc = "searching"
    /\ englishResults' = data
    /\ IF Len(data) = 0
       THEN tpc' = "returned" /\ retrieved' = <<>>
       ELSE tpc' = "pairing" /\ UNCHANGED retrieved
    /\ UNCHANGED <<anchors, uniqueRefs, enData, thrown, failedCalls, reply>>

\* the RPC resolves with an error
SearchRejects(e) ==
    /\ tpc = "searching"
    /\ throws(SearchFailed(e))
    /\ failedCalls' = failedCalls \cup {"search"}
    /\ UNCHANGED <<englishResults, anchors, uniqueRefs, enData, retrieved, reply>>

\* Promise.all of fetchArabicVerses and fetchVerseContexts is settled: the
\* anchors are built and expandPassages issues its English lookup
PairingResolves(arabic, ctx, table) ==
    /\ tpc = "pairing"
    /\ LET refs == refsOf(englishResults)
           contexts == fetchVerseContexts(refs, ctx, table)
           built == buildAnchors(englishResults, arabicMapOf(refs), contexts.map)
       IN  /\ failedCalls' = failedCalls
                  \cup (IF arabic = Ok THEN {} ELSE {"arabic"})
                  \cup (IF ctx = Ok THEN {} ELSE {"context"})
           /\ IF arabic # Ok
              THEN /\ throws(ArabicFailed(arabic))
                   /\ UNCHANGED <<anchors, uniqueRefs>>
              ELSE IF contexts.failed
              THEN /\ throws(<<"Failed to fetch verse contexts: ">> \o ctx.message)
                   /\ UNCHANGED <<anchors, uniqueRefs>>
              ELSE /\ anchors' = built
                   /\ uniqueRefs' = dedupeRefs(refsToFetch(built))
                   /\ tpc' = "expandEnglish"
                   /\ UNCHANGED thrown
    /\ UNCHANGED <<englishResults, enData, retrieved, reply>>

\* the English lookup of expandPassages resolves, with rows or with an
\* error, which line 344 does not read; fetchArabicVerses is called
ExpandEnglishResolves(outcome) ==
    /\ tpc = "expandEnglish"
    /\ enData' = IF outcome = Ok THEN Arr(englishRowsOf(uniqueRefs)) ELSE Null
    /\ failedCalls' = failedCalls \cup (IF outcome = Ok THEN {} ELSE {"expandEnglish"})
    /\ tpc' = "expandArabic"
    /\ UNCHANGED <<englishResults, anchors, uniqueRefs, retrieved, thrown, reply>>

\* the Arabic lookup of expandPassages resolves: the list is built and
\* returned by expandPassages and by retrievePairedContext
ExpandArabicResolves(outcome) ==
    /\ tpc = "expandArabic"
    /\ IF outcome = Ok
       THEN /\ retrieved' = expandedRows(enData, arabicMapOf(uniqueRefs))
            /\ tpc' = "returned"
            /\ UNCHANGED <<thrown, failedCalls>>
       ELSE /\ throws(ArabicFailed(outcome))
            /\ failedCalls' = failedCalls \cup {"expandArabic"}
            /\ UNCHANGED retrieved
    /\ UNCHANGED <<englishResults, anchors, uniqueRefs, enData, reply>>

\* route.ts, lines 151-166 and 191-218: POST answers at once when the
\* retrieval threw or returned no verse, and goes on to step 6 otherwise
PostAfterRetrieval ==
    /\ tpc \in {"returned", "threw"}
    /\ reply' = IF tpc = "threw" THEN errorResponse(thrown)
                ELSE IF Len(retrieved) = 0
                THEN [status |-> 200, body |-> NoVersesAnswer]
                ELSE [status |-> 0, body |-> ToGeneration]
    /\ tpc' = "responded"
    /\ UNCHANGED <<englishResults, anchors, uniqueRefs, enData, retrieved, thrown,
                   failedCalls>>

otherThanRetrieve ==
    <<context, streamVars, genVars, parseVars, citeVars, queryVars, routeVars>>

InitRetrieve ==
    /\ tpc = "start"
    /\ englishResults = <<>> /\ anchors = <<>> /\ uniqueRefs = <<>>
    /\ enData = <<>> /\ retrieved = <<>>
    /\ thrown = <<>> /\ failedCalls = {} /\ reply = NoReply
    /\ context = <<>>
    /\ StreamIdle /\ GenIdle /\ ParseIdle /\ CiteIdle /\ QueryIdle /\ RouteIdle

NextRetrieve ==
    \/ \E k \in BOOLEAN : CallRetrievePairedContext(k) /\ UNCHANGED otherThanRetrieve
    \/ \E k \in BOOLEAN : EmbeddingResolves(k) /\ UNCHANGED otherThanRetrieve
    \/ \E m \in EmbeddingErrors : EmbeddingRejects(m) /\ UNCHANGED otherThanRetrieve
    \/ \E d \in SearchData : SearchResolves(d) /\ UNCHANGED otherThanRetrieve
    \/ \E e \in DbErrors : SearchRejects(e) /\ UNCHANGED otherThanRetrieve
    \/ \E ar, cx \in Outcomes, tb \in ContextTables :
          PairingResolves(ar, cx, tb) /\ UNCHANGED otherThanRetrieve
    \/ \E o \in Outcomes : ExpandEnglishResolves(o) /\ UNCHANGED otherThanRetrieve
    \/ \E o \in Outcomes : ExpandArabicResolves(o) /\ UNCHANGED otherThanRetrieve
    \/ PostAfterRetrieval /\ UNCHANGED otherThanRetrieve

SpecRetrieve == InitRetrieve /\ [][NextRetrieve]_vars

(***************************************************************************)
(* Properties of the retrieval and of the error responses.                 *)
(***************************************************************************)
Returned == tpc \in {"returned", "responded"} /\ thrown = <<>>

AnchorKeys == KeysOf(refsOf(englishResults))

NoRowTwice(rows) ==
    \A i, j \in 1 .. Len(rows) :
        (i # j) => <<rows[i].surah, rows[i].ayah>> # <<rows[j].surah, rows[j].ayah>>

\* the texts POST and the stream adapter have for a failure
UserFacingErrors ==
    {<<ServiceConfigurationError>>, <<DatabaseConnectionError>>, <<GenericError>>,
     <<"Unknown error">>}

\* C21: no response carries the message of an internal exception: the data
\* of every error event of the stream is one of the fixed texts for
\* failures.
C21_NoRawMessage ==
    \A j \in 1 .. Len(events) :
        (events[j].type = "error") => events[j].data \in UserFacingErrors

\* C22: when the client of the embedding or of the row store cannot be
\* built for want of a credential, POST answers 500 with the one text
\* "Service configuration error", whichever credential is missing.
C22_MissingCredential ==
    (tpc = "responded" /\ thrown \in {MissingOpenAI, MissingSupabase}) =>
        reply = [status |-> 500, body |-> ServiceConfigurationError]

FatalCalls == {"embedding", "search", "arabic", "expandEnglish", "expandArabic"}

\* C23: when the embedding call, the RPC or a lookup other than that of
\* verse_context failed, retrievePairedContext does not return a list: it
\* throws, and POST answers with an error and not with the "could not find
\* relevant verses" answer.
C23_FailureIsFatal ==
    (failedCalls \cap FatalCalls # {}) =>
        /\ tpc # "returned"
        /\ (tpc = "responded") =>
              (thrown # <<>> /\ reply.status = 500 /\ reply.body # NoVersesAnswer)

\* C24: in the list returned, the row of an anchor has the similarity of
\* the search and the theme and context_summary of the anchor built from
\* the context lookup; a row with the similarity 1.0 is no anchor.
C24_AnchorsKeepSimilarity ==
    Returned =>
        \A j \in 1 .. Len(retrieved) :
            LET key == <<retrieved[j].surah, retrieved[j].ayah>>
            IN  /\ (retrieved[j].similarity = FullWeight) => key \notin AnchorKeys
                /\ \A i \in 1 .. Len(anchors) :
                      (<<anchors[i].surah, anchors[i].ayah>> = key) =>
                          /\ retrieved[j].similarity = anchors[i].similarity
                          /\ retrieved[j].theme = anchors[i].theme
                          /\ retrieved[j].context_summary = anchors[i].context_summary

\* C27: the list returned holds every anchor, holds no (surah, ayah) twice,
\* and every row that is no anchor is within 2 ayahs of an anchor of its
\* surah.
C27_AnchorsAndNeighbours ==
    Returned =>
        /\ AnchorKeys \subseteq KeysOf(retrieved)
        /\ NoRowTwice(retrieved)
        /\ \A k \in KeysOf(retrieved) \ AnchorKeys :
              \E o \in AnchorKeys :
                  o[1] = k[1] /\ k[2] - o[2] \in (0 - ExpandRadius) .. ExpandRadius

\* C28: the references expandPassages asks for are the (s, a + d) with
\* (s, a) an anchor, d in -2 .. 2 and a + d >= 1, each once; no ayah below
\* 1 is asked for.
C28_ExpansionRequests ==
    (anchors # <<>>) =>
        /\ KeysOf(uniqueRefs) =
              {k \in {<<anchors[j].surah, anchors[j].ayah + d>> :
                          j \in 1 .. Len(anchors),
                          d \in (0 - ExpandRadius) .. ExpandRadius} : k[2] >= 1}
        /\ NoRowTwice(uniqueRefs)
        /\ \A j \in 1 .. Len(uniqueRefs) : uniqueRefs[j].ayah >= 1

\* the anchor (2:1): ayah 0 and ayah -1 are left out
C28_Witness ==
    /\ tpc = "expandEnglish"
    /\ refsOf(anchors) = <<Ref(2, 1)>>
    /\ uniqueRefs = <<Ref(2, 1), Ref(2, 2), Ref(2, 3)>>

\* the list retrievePairedContext gives when the verse_context lookup
\* finds no row
withoutContexts ==
    LET refs == refsOf(englishResults)
        plain == buildAnchors(englishResults, arabicMapOf(refs),
                              contextMapOf(refs, "none"))
    IN  expandedRows(enData, arabicMapOf(dedupeRefs(refsToFetch(plain))))

\* C29: a failure of the verse_context lookup does not make the retrieval
\* throw: the anchors are built with theme and context_summary undefined,
\* and the list returned is the one of a lookup that found no row, with
\* theme and context_summary undefined in every row.
C29_ContextLookupNonFatal ==
    ("context" \in failedCalls /\ "arabic" \notin failedCalls) =>
        /\ (thrown # <<>>) => "expandArabic" \in failedCalls
        /\ Len(anchors) = Len(englishResults)
        /\ \A j \in 1 .. Len(anchors) :
              anchors[j].theme = Undefined /\ anchors[j].context_summary = Undefined
        /\ Returned =>
              /\ retrieved = withoutContexts
              /\ \A j \in 1 .. Len(retrieved) :
                    /\ retrieved[j].theme = Undefined
                    /\ retrieved[j].context_summary = Undefined

C29_Witness ==
    /\ "context" \in failedCalls
    /\ tpc = "returned" /\ thrown = <<>>
    /\ Len(retrieved) > Len(englishResults)

====
